---------------------------- MODULE Spec2Model ----------------------------
(***************************************************************************)
(* Model of the real-time interaction engine of alpaca-ai: the audio       *)
(* playback engine (AudioPlayer), the interrupt detector                   *)
(* (InterruptDetector) and the two streaming speak pipelines               *)
(* (AlpacaInteraction._speak and OutputHandler.speak), and the turn logic   *)
(* (AlpacaInteraction.run_single_interaction) with the loops that host it  *)
(* (main and run_voice_interaction_loop).                                  *)
(*                                                                         *)
(* Text is a sequence of one-character strings.  The turn logic, the       *)
(* playback worker threads and the detector worker threads are separate    *)
(* processes; every access to a field shared between threads is a step of  *)
(* its own.                                                                *)
(***************************************************************************)
EXTENDS Naturals, Integers, Sequences, FiniteSets, TLC

(***************************************************************************)
(* Bounds of the model.                                                    *)
(***************************************************************************)
MaxPhases == 2
MaxTokens == 2
MaxWorkers == 2
MaxDetectors == 2
MaxCalls == 4
MaxShort == 2
MaxFrames == 5
MaxTurns == 2
MaxSignals == 2
MaxErrors == 2

(***************************************************************************)
(* Program constants.                                                      *)
(***************************************************************************)
approx_words_for_initial_chunk == 8
vad_activation_chunks == 3
vad_energy_threshold == 300
\* vad_confidence_threshold, 0.5, in tenths
vad_confidence_threshold == 5
\* AudioHandler.max_retries, the default of audio_validation
max_retries == 3

(***************************************************************************)
(* Text.                                                                   *)
(***************************************************************************)
\* The delimiters of sentence_ends that occur in the modelled alphabet.
sentence_ends == {".", "!", "?", "\n", ",", ";"}

\* The characters str.strip() removes.
Whitespace == {" ", "\n", "\t"}

RECURSIVE Concat(_)
Concat(ss) == IF ss = <<>> THEN <<>> ELSE Head(ss) \o Concat(Tail(ss))

RECURSIVE LStrip(_)
LStrip(s) ==
    IF s # <<>> /\ Head(s) \in Whitespace THEN LStrip(Tail(s)) ELSE s

RECURSIVE RStrip(_)
RStrip(s) ==
    IF s # <<>> /\ s[Len(s)] \in Whitespace
    THEN RStrip(SubSeq(s, 1, Len(s) - 1))
    ELSE s

\* str.strip()
Strip(s) == RStrip(LStrip(s))

\* tts_buffer.count(' ')
CountSpaces(s) == Cardinality({i \in 1..Len(s) : s[i] = " "})

\* any(tts_buffer.endswith(punc) for punc in sentence_ends)
EndsWithDelimiter(s) == s # <<>> /\ s[Len(s)] \in sentence_ends

\* A mutation of SpeakThisChunk: the word count also cuts after the first
\* emission.
SpeakThisChunkByWords(buf, spoken) ==
    \/ CountSpaces(buf) + 1 >= approx_words_for_initial_chunk
    \/ EndsWithDelimiter(buf)

\* The decision "speak_this_chunk" of _process_tts_buffer.
SpeakThisChunk(buf, spoken) ==
    IF ~spoken
    THEN \/ CountSpaces(buf) + 1 >= approx_words_for_initial_chunk
         \/ EndsWithDelimiter(buf)
    ELSE EndsWithDelimiter(buf)

\* A mutation of RemainingBuffer: the buffer is not reset after a cut.
RemainingBufferKept(buf, cut) == buf

\* A mutation of RemainingBuffer: the buffer is emptied on every call.
RemainingBufferEmptied(buf, cut) == <<>>

\* remaining_buffer of _process_tts_buffer: "" after a cut, else tts_buffer
RemainingBuffer(buf, cut) == IF cut THEN <<>> ELSE buf

\* The text without its whitespace characters.
RemoveWhitespace(s) == SelectSeq(s, LAMBDA c : c \notin Whitespace)


(***************************************************************************)
(* State.                                                                  *)
(***************************************************************************)
VARIABLES
    \* the turn logic (the caller's thread)
    pc,                     \* position of the caller's thread
    stack,                  \* return positions of the calls in progress
    \* AudioPlayer
    audio_queue,            \* queue.Queue of PlaybackItems (item ids)
    is_playing,             \* AudioPlayer.is_playing
    should_stop_playback,   \* threading.Event
    playback_thread,        \* 0 (None) or the id of a playback worker
    wpc,                    \* position of each playback worker thread
    witem,                  \* the item a worker has taken from the queue
    sink,                   \* items written to the sink, in order of completion
    sink_errors,            \* history: <<item, "open" or "write">> failures
    \* arguments and locals of the AudioPlayer methods
    audio_data,             \* the item handed to play_audio
    nitems,                 \* number of PlaybackItems created so far
    force,                  \* argument of stop_playback
    timeout,                \* argument of wait_for_playback_complete
    estimated_remaining,    \* "unbound" until assigned
    timed_out,              \* time.time() - start_time >= timeout
    queue_empty_time,       \* "None" or "time"
    wait_result,            \* outcome of the last wait_for_playback_complete
    ncalls,                 \* number of AudioPlayer calls made by the driver
    \* InterruptDetector
    tts_enabled,            \* ComponentManager.tts_enabled
    vad_model,              \* TRUE when the Silero VAD model was loaded
    interrupt_listener_thread,       \* 0 (None) or the id of a capture worker
    should_stop_interrupt_listener,  \* threading.Event
    interrupt_event_ref,    \* 0 (None) or the id of the caller's event
    dpc,                    \* position of each capture worker thread
    active_chunks,          \* local activation count of each capture worker
    ev,                     \* the threading.Event objects: id -> is_set()
    \* the capture stream
    scores,                 \* the frames stream.read will deliver
    heard,                  \* history: the frames read so far
    fired_at,               \* history: index of the frame that set the signal
    \* locals of speak
    phase,                  \* number of Speak phases started
    interrupt_event,        \* id of the phase's threading.Event
    kind,                   \* "gen", "agen" or "str"
    response_source,        \* tokens not yet produced by the source
    source_fails,           \* the source raises once it is exhausted
    full_response_text,
    tts_buffer,
    initial_words_spoken,
    interrupted,
    audio_ok,               \* synthesize returned a non-empty audio array
    final_status_code,      \* OutputHandler.speak only
    status_queue,           \* OutputHandler.speak: the events put so far
    result,                 \* <<status, full_text>> returned by speak
    \* history
    consumed,               \* tokens taken from the source in this phase
    synthesized,            \* texts passed to synthesize in this phase
    synth_failed,           \* texts for which synthesize raised
    enqueued,               \* items put on the queue in this phase
    play_after_set,         \* play_audio was called after the signal was set
    wait_expired,           \* the 60 s drain wait of _speak expired
    queued_at_return,       \* items in the queue when speak returned
    late_write,             \* such an item was written after that return
    \* the components and the hosting loop
    host,                   \* "main" or "voice": the loop that runs the turns
    audio_handler,          \* ComponentManager.audio_handler is not None
    transcriber,            \* ComponentManager.transcriber is not None
    \* locals of listen_for_speech and _listen
    retry_count,
    audio_file,             \* "file", "TIMEOUT_ERROR", "low_energy" or "None"
    transcribed_text,       \* the value returned by _listen
    attempts,               \* history: capture attempts of this call
    last_attempt,           \* history: outcome of the latest attempt
    \* run_single_interaction and its loop
    turn,                   \* number of Interactions started
    conversation_history,   \* ConversationManager: <<role, turn>> entries
    turn_result,            \* <<status, text>> of the latest Interaction
    phases_run,             \* history: what this Interaction has entered
    slept,                  \* history: the recovery sleep followed the turn
    \* shutdown
    signals,                \* number of shutdown requests received
    pending,                \* a request the event loop has not yet handled
    request_turn,           \* history: the Interaction in flight at a request
    shutdown_requested,     \* the flag of main
    summaries,              \* history: calls of summarize_conversation
    cleanups                \* history: completed component cleanups

ctlVars == <<pc, stack>>
cfgVars == <<vad_model, tts_enabled, host, audio_handler, transcriber>>
listenVars == <<retry_count, audio_file, transcribed_text, attempts,
                last_attempt>>
runVars == <<turn, conversation_history, turn_result, phases_run, slept>>
shutVars == <<signals, pending, request_turn, shutdown_requested,
              summaries, cleanups>>
turnVars == <<listenVars, runVars, shutVars>>
micVars == <<scores, heard, fired_at>>
playerVars == <<audio_queue, is_playing, should_stop_playback,
                playback_thread, wpc, witem, sink, sink_errors>>
callVars == <<audio_data, nitems, force, timeout, estimated_remaining,
              timed_out, queue_empty_time, wait_result, ncalls>>
listenerVars == <<micVars, interrupt_listener_thread,
                  should_stop_interrupt_listener, interrupt_event_ref, dpc,
                  active_chunks, ev>>
detVars == <<cfgVars, turnVars, listenerVars>>
speakVars == <<phase, interrupt_event, kind, response_source, source_fails,
               full_response_text, tts_buffer, initial_words_spoken,
               interrupted, audio_ok, final_status_code, status_queue,
               result>>
histVars == <<consumed, synthesized, synth_failed, enqueued, play_after_set,
              wait_expired, queued_at_return, late_write>>
vars == <<ctlVars, playerVars, callVars, detVars, speakVars, histVars>>

WorkerIds == 1..MaxWorkers
DetectorIds == 1..MaxDetectors
EventIds == 1..MaxPhases

\* threading.Thread.is_alive() of a playback worker
WorkerAlive(w) == wpc[w] \notin {"none", "dead"}
\* threading.Thread.is_alive() of a capture worker
DetectorAlive(d) == dpc[d] \notin {"none", "dead"}

\* Return from the call in progress to the position on top of the stack.
Return == /\ pc' = Head(stack)
          /\ stack' = Tail(stack)

\* Call the method at position target and come back at position back.
Call(target, back) == /\ pc' = target
                      /\ stack' = <<back>> \o stack

(***************************************************************************)
(* AudioPlayer: the playback worker (_audio_playback_thread).              *)
(***************************************************************************)
\* while not should_stop_playback.is_set(): audio_queue.get(timeout=0.5)
WorkerGet(w) ==
    /\ wpc[w] = "get"
    /\ IF should_stop_playback
       THEN /\ wpc' = [wpc EXCEPT ![w] = "exit"]
            /\ UNCHANGED <<audio_queue, witem>>
       ELSE IF audio_queue # <<>>
       THEN /\ witem' = [witem EXCEPT ![w] = Head(audio_queue)]
            /\ audio_queue' = Tail(audio_queue)
            /\ wpc' = [wpc EXCEPT ![w] = "set_playing"]
       ELSE /\ wpc' = [wpc EXCEPT ![w] = "empty"]
            /\ UNCHANGED <<audio_queue, witem>>
    /\ UNCHANGED <<is_playing, should_stop_playback, playback_thread, sink,
                   sink_errors>>
    /\ UNCHANGED <<ctlVars, callVars, detVars, speakVars, histVars>>

\* self.is_playing = True
WorkerSetPlaying(w) ==
    /\ wpc[w] = "set_playing"
    /\ is_playing' = TRUE
    /\ wpc' = [wpc EXCEPT ![w] = "check_stop"]
    /\ UNCHANGED <<audio_queue, should_stop_playback, playback_thread, witem,
                   sink, sink_errors>>
    /\ UNCHANGED <<ctlVars, callVars, detVars, speakVars, histVars>>

\* A mutation of AfterWriteError: the worker thread ends.
WorkerDiesOnWriteError == "exit"

\* The position of the worker after stream.write has raised: the except
\* clause prints, the finally clause calls task_done, and the loop goes on.
AfterWriteError == "get"

\* if should_stop_playback.is_set(): task_done(); break -- else open the
\* stream if needed and begin stream.write.  When pyaudio.open raises, the
\* outer "except Exception" prints, calls task_done, and the loop goes on
\* with the next item.
WorkerCheckStop(w) ==
    /\ wpc[w] = "check_stop"
    /\ IF should_stop_playback
       THEN /\ wpc' = [wpc EXCEPT ![w] = "exit"]
            /\ witem' = [witem EXCEPT ![w] = 0]
            /\ UNCHANGED <<late_write, sink_errors>>
       ELSE \E opened \in BOOLEAN :
              IF opened
              THEN /\ wpc' = [wpc EXCEPT ![w] = "writing"]
                   /\ late_write' =
                         (late_write \/ witem[w] \in queued_at_return)
                   /\ UNCHANGED <<witem, sink_errors>>
              ELSE /\ wpc' = [wpc EXCEPT ![w] = "get"]
                   /\ sink_errors' = sink_errors \cup {<<witem[w], "open">>}
                   /\ witem' = [witem EXCEPT ![w] = 0]
                   /\ UNCHANGED late_write
    /\ UNCHANGED <<audio_queue, is_playing, should_stop_playback,
                   playback_thread, sink>>
    /\ UNCHANGED <<ctlVars, callVars, detVars, speakVars>>
    /\ UNCHANGED <<consumed, synthesized, synth_failed, enqueued,
                   play_after_set, wait_expired, queued_at_return>>

\* stream.write(audio_data.tobytes()) returns or raises; task_done()
WorkerWrite(w) ==
    /\ wpc[w] = "writing"
    /\ \E written \in BOOLEAN :
          IF written
          THEN /\ sink' = Append(sink, witem[w])
               /\ wpc' = [wpc EXCEPT ![w] = "get"]
               /\ UNCHANGED sink_errors
          ELSE /\ sink_errors' = sink_errors \cup {<<witem[w], "write">>}
               /\ wpc' = [wpc EXCEPT ![w] = AfterWriteError]
               /\ UNCHANGED sink
    /\ witem' = [witem EXCEPT ![w] = 0]
    /\ UNCHANGED <<audio_queue, is_playing, should_stop_playback,
                   playback_thread>>
    /\ UNCHANGED <<ctlVars, callVars, detVars, speakVars, histVars>>

\* except queue.Empty: if self.audio_queue.empty():
WorkerEmpty(w) ==
    /\ wpc[w] = "empty"
    /\ wpc' = [wpc EXCEPT ![w] = IF audio_queue = <<>> THEN "clear_playing"
                                                       ELSE "get"]
    /\ UNCHANGED <<audio_queue, is_playing, should_stop_playback,
                   playback_thread, witem, sink, sink_errors>>
    /\ UNCHANGED <<ctlVars, callVars, detVars, speakVars, histVars>>

\* self.is_playing = False; continue
WorkerClearPlaying(w) ==
    /\ wpc[w] = "clear_playing"
    /\ is_playing' = FALSE
    /\ wpc' = [wpc EXCEPT ![w] = "get"]
    /\ UNCHANGED <<audio_queue, should_stop_playback, playback_thread, witem,
                   sink, sink_errors>>
    /\ UNCHANGED <<ctlVars, callVars, detVars, speakVars, histVars>>

\* finally: close the stream; self.is_playing = False
WorkerExit(w) ==
    /\ wpc[w] = "exit"
    /\ is_playing' = FALSE
    /\ wpc' = [wpc EXCEPT ![w] = "dead"]
    /\ UNCHANGED <<audio_queue, should_stop_playback, playback_thread, witem,
                   sink, sink_errors>>
    /\ UNCHANGED <<ctlVars, callVars, detVars, speakVars, histVars>>

Worker(w) ==
    \/ WorkerGet(w)
    \/ WorkerSetPlaying(w)
    \/ WorkerCheckStop(w)
    \/ WorkerWrite(w)
    \/ WorkerEmpty(w)
    \/ WorkerClearPlaying(w)
    \/ WorkerExit(w)

(***************************************************************************)
(* AudioPlayer: play_audio, stop_playback, wait_for_playback_complete,     *)
(* cleanup, run on the caller's thread.                                    *)
(***************************************************************************)
\* start_playback_thread: a new worker unless the referenced one is alive
StartPlaybackThread ==
    IF playback_thread = 0 \/ ~WorkerAlive(playback_thread)
    THEN \E w \in WorkerIds :
            /\ ~WorkerAlive(w)
            /\ \A v \in WorkerIds : v < w => WorkerAlive(v)
            /\ should_stop_playback' = FALSE
            /\ playback_thread' = w
            /\ wpc' = [wpc EXCEPT ![w] = "get"]
    ELSE UNCHANGED <<should_stop_playback, playback_thread, wpc>>

\* play_audio up to start_playback_thread(sample_rate)
PlayAudioStart ==
    /\ pc = "play_audio"
    /\ StartPlaybackThread
    /\ play_after_set' = (play_after_set \/ (phase > 0 /\ ev[interrupt_event]))
    /\ pc' = "play_put"
    /\ UNCHANGED <<stack, audio_queue, is_playing, witem, sink, sink_errors>>
    /\ UNCHANGED <<callVars, detVars, speakVars>>
    /\ UNCHANGED <<consumed, synthesized, synth_failed, enqueued,
                   wait_expired, queued_at_return, late_write>>

\* self.audio_queue.put((audio_data, sample_rate)): blocks while full
PlayAudioPut ==
    /\ pc = "play_put"
    /\ Len(audio_queue) < 100
    /\ audio_queue' = Append(audio_queue, audio_data)
    /\ enqueued' = enqueued \cup {audio_data}
    /\ pc' = "play_flag"
    /\ UNCHANGED <<stack, is_playing, should_stop_playback, playback_thread,
                   wpc, witem, sink, sink_errors>>
    /\ UNCHANGED <<callVars, detVars, speakVars>>
    /\ UNCHANGED <<consumed, synthesized, synth_failed, play_after_set,
                   wait_expired, queued_at_return, late_write>>

\* self.is_playing = True
PlayAudioFlag ==
    /\ pc = "play_flag"
    /\ is_playing' = TRUE
    /\ Return
    /\ UNCHANGED <<audio_queue, should_stop_playback, playback_thread, wpc,
                   witem, sink, sink_errors>>
    /\ UNCHANGED <<callVars, detVars, speakVars, histVars>>

\* stop_playback: if self.is_playing or force: should_stop_playback.set()
StopPlayback ==
    /\ pc = "stop_playback"
    /\ IF is_playing \/ force
       THEN /\ should_stop_playback' = TRUE
            /\ pc' = "stop_clear"
            /\ UNCHANGED stack
       ELSE /\ Return
            /\ UNCHANGED should_stop_playback
    /\ UNCHANGED <<audio_queue, is_playing, playback_thread, wpc, witem, sink,
                   sink_errors>>
    /\ UNCHANGED <<callVars, detVars, speakVars, histVars>>

\* while not self.audio_queue.empty(): get_nowait(); task_done()
StopPlaybackClear ==
    /\ pc = "stop_clear"
    /\ audio_queue' = <<>>
    /\ pc' = "stop_flag"
    /\ UNCHANGED <<stack, is_playing, should_stop_playback, playback_thread,
                   wpc, witem, sink, sink_errors>>
    /\ UNCHANGED <<callVars, detVars, speakVars, histVars>>

\* join(timeout=0.2) is over; self.is_playing = False
StopPlaybackFlag ==
    /\ pc = "stop_flag"
    /\ is_playing' = FALSE
    /\ Return
    /\ UNCHANGED <<audio_queue, should_stop_playback, playback_thread, wpc,
                   witem, sink, sink_errors>>
    /\ UNCHANGED <<callVars, detVars, speakVars, histVars>>


\* wait_for_playback_complete up to the first print: the early return, the
\* dynamic timeout, and the f-string that reads estimated_remaining
WaitStart ==
    /\ pc = "wait_for_playback_complete"
    /\ IF ~is_playing /\ audio_queue = <<>>
       THEN /\ wait_result' = "True"
            /\ Return
            /\ UNCHANGED <<estimated_remaining, timed_out, queue_empty_time>>
       ELSE IF timeout = "None"
       THEN /\ estimated_remaining' = "bound"
            /\ timed_out' = FALSE
            /\ queue_empty_time' = "None"
            /\ pc' = "wait_queue"
            /\ UNCHANGED <<stack, wait_result>>
       ELSE \* estimated_remaining is read before assignment
            /\ wait_result' = "exception"
            /\ Return
            /\ UNCHANGED <<estimated_remaining, timed_out, queue_empty_time>>
    /\ UNCHANGED <<audio_data, nitems, force, timeout, ncalls>>
    /\ UNCHANGED <<playerVars, detVars, speakVars, histVars>>

\* while not self.audio_queue.empty() and elapsed < timeout: sleep(0.1)
\* if self.audio_queue.empty(): queue_empty_time = time.time()
WaitQueue ==
    /\ pc = "wait_queue"
    /\ IF audio_queue # <<>> /\ ~timed_out
       THEN /\ \E t \in BOOLEAN : timed_out' = t
            /\ UNCHANGED <<pc, queue_empty_time>>
       ELSE /\ queue_empty_time' = IF audio_queue = <<>> THEN "time"
                                                         ELSE "None"
            /\ pc' = "wait_playing"
            /\ UNCHANGED timed_out
    /\ UNCHANGED <<stack, audio_data, nitems, force, timeout,
                   estimated_remaining, wait_result, ncalls>>
    /\ UNCHANGED <<playerVars, detVars, speakVars, histVars>>

\* while self.is_playing and elapsed < timeout: sleep(0.1)
\* if not self.is_playing: buffer wait, then the print that formats
\* queue_empty_time (or 'N/A') with :.2f
WaitPlaying ==
    /\ pc = "wait_playing"
    /\ IF is_playing /\ ~timed_out
       THEN /\ \E t \in BOOLEAN : timed_out' = t
            /\ UNCHANGED <<pc, stack, wait_result>>
       ELSE IF ~is_playing /\ queue_empty_time = "None"
       THEN \* ValueError: format code 'f' applied to the string 'N/A'
            /\ wait_result' = "exception"
            /\ Return
            /\ UNCHANGED timed_out
       ELSE /\ \E t \in {timed_out, TRUE} : timed_out' = t
            /\ pc' = "wait_end"
            /\ UNCHANGED <<stack, wait_result>>
    /\ UNCHANGED <<audio_data, nitems, force, timeout, estimated_remaining,
                   queue_empty_time, ncalls>>
    /\ UNCHANGED <<playerVars, detVars, speakVars, histVars>>

\* if elapsed >= timeout: self.stop_playback(force=True); return False
\* else: self.is_playing = False; return True
WaitEnd ==
    /\ pc = "wait_end"
    /\ IF timed_out
       THEN /\ force' = TRUE
            /\ Call("stop_playback", "wait_false")
            /\ UNCHANGED <<is_playing, wait_result>>
       ELSE /\ is_playing' = FALSE
            /\ wait_result' = "True"
            /\ Return
            /\ UNCHANGED force
    /\ UNCHANGED <<audio_queue, should_stop_playback, playback_thread, wpc,
                   witem, sink, sink_errors>>
    /\ UNCHANGED <<audio_data, nitems, timeout, estimated_remaining, timed_out,
                   queue_empty_time, ncalls>>
    /\ UNCHANGED <<detVars, speakVars, histVars>>

\* return False, after the forced stop
WaitFalse ==
    /\ pc = "wait_false"
    /\ wait_result' = "False"
    /\ Return
    /\ UNCHANGED <<audio_data, nitems, force, timeout, estimated_remaining,
                   timed_out, queue_empty_time, ncalls>>
    /\ UNCHANGED <<playerVars, detVars, speakVars, histVars>>

\* cleanup, after stop_playback(force=True) and join(timeout=0.5):
\* self.playback_thread = None
CleanupEnd ==
    /\ pc = "cleanup_end"
    /\ playback_thread' = 0
    /\ Return
    /\ UNCHANGED <<audio_queue, is_playing, should_stop_playback, wpc, witem,
                   sink, sink_errors>>
    /\ UNCHANGED <<callVars, detVars, speakVars, histVars>>

Player ==
    \/ PlayAudioStart
    \/ PlayAudioPut
    \/ PlayAudioFlag
    \/ StopPlayback
    \/ StopPlaybackClear
    \/ StopPlaybackFlag

Waiter ==
    \/ WaitStart
    \/ WaitQueue
    \/ WaitPlaying
    \/ WaitEnd
    \/ WaitFalse

(***************************************************************************)
(* A driver that calls the AudioPlayer methods in any order.               *)
(***************************************************************************)
DrivePlayAudio ==
    /\ pc = "driver"
    /\ ncalls < MaxCalls
    /\ ncalls' = ncalls + 1
    /\ nitems' = nitems + 1
    /\ audio_data' = nitems + 1
    /\ Call("play_audio", "driver")
    /\ UNCHANGED <<force, timeout, estimated_remaining, timed_out,
                   queue_empty_time, wait_result>>
    /\ UNCHANGED <<playerVars, detVars, speakVars, histVars>>

DriveStopPlayback ==
    /\ pc = "driver"
    /\ ncalls < MaxCalls
    /\ ncalls' = ncalls + 1
    /\ \E f \in BOOLEAN : force' = f
    /\ Call("stop_playback", "driver")
    /\ UNCHANGED <<audio_data, nitems, timeout, estimated_remaining, timed_out,
                   queue_empty_time, wait_result>>
    /\ UNCHANGED <<playerVars, detVars, speakVars, histVars>>

DriveWait ==
    /\ pc = "driver"
    /\ ncalls < MaxCalls
    /\ ncalls' = ncalls + 1
    /\ \E t \in {"None", "given"} : timeout' = t
    /\ estimated_remaining' = "unbound"
    /\ wait_result' = "none"
    /\ Call("wait_for_playback_complete", "driver")
    /\ UNCHANGED <<audio_data, nitems, force, timed_out, queue_empty_time>>
    /\ UNCHANGED <<playerVars, detVars, speakVars, histVars>>

DriveCleanup ==
    /\ pc = "driver"
    /\ ncalls < MaxCalls
    /\ ncalls' = ncalls + 1
    /\ force' = TRUE
    /\ pc' = "stop_playback"
    /\ stack' = <<"cleanup_end", "driver">> \o stack
    /\ UNCHANGED <<audio_data, nitems, timeout, estimated_remaining, timed_out,
                   queue_empty_time, wait_result>>
    /\ UNCHANGED <<playerVars, detVars, speakVars, histVars>>

Driver ==
    \/ DrivePlayAudio
    \/ DriveStopPlayback
    \/ DriveWait
    \/ DriveCleanup

(***************************************************************************)
(* InterruptDetector.                                                      *)
(***************************************************************************)
\* A mutation of StartInterruptListener: the worker is started whether or
\* not the VAD model is loaded.
StartInterruptListenerAnyway(e) ==
    IF \/ interrupt_listener_thread = 0
       \/ ~DetectorAlive(interrupt_listener_thread)
    THEN \E d \in DetectorIds :
           /\ ~DetectorAlive(d)
           /\ \A c \in DetectorIds : c < d => DetectorAlive(c)
           /\ should_stop_interrupt_listener' = FALSE
           /\ interrupt_event_ref' = e
           /\ interrupt_listener_thread' = d
           /\ dpc' = [dpc EXCEPT ![d] = "open"]
           /\ active_chunks' = [active_chunks EXCEPT ![d] = 0]
    ELSE UNCHANGED <<should_stop_interrupt_listener, interrupt_event_ref,
                     interrupt_listener_thread, dpc, active_chunks>>

\* start_interrupt_listener(interrupt_event)
StartInterruptListener(e) ==
    IF \/ interrupt_listener_thread = 0
       \/ ~DetectorAlive(interrupt_listener_thread)
    THEN IF ~vad_model
         THEN UNCHANGED <<should_stop_interrupt_listener, interrupt_event_ref,
                          interrupt_listener_thread, dpc, active_chunks>>
         ELSE \E d \in DetectorIds :
                /\ ~DetectorAlive(d)
                /\ \A c \in DetectorIds : c < d => DetectorAlive(c)
                /\ should_stop_interrupt_listener' = FALSE
                /\ interrupt_event_ref' = e
                /\ interrupt_listener_thread' = d
                /\ dpc' = [dpc EXCEPT ![d] = "open"]
                /\ active_chunks' = [active_chunks EXCEPT ![d] = 0]
    ELSE UNCHANGED <<should_stop_interrupt_listener, interrupt_event_ref,
                     interrupt_listener_thread, dpc, active_chunks>>

\* A mutation of StopInterruptListener: the call does nothing.
StopInterruptListenerSkipped ==
    UNCHANGED <<should_stop_interrupt_listener, interrupt_listener_thread,
                interrupt_event_ref>>

\* stop_interrupt_listener()
StopInterruptListener ==
    /\ should_stop_interrupt_listener' =
          IF interrupt_listener_thread # 0
             /\ DetectorAlive(interrupt_listener_thread)
          THEN TRUE
          ELSE should_stop_interrupt_listener
    /\ interrupt_listener_thread' = 0
    /\ interrupt_event_ref' = 0

\* stream = self.pyaudio.open(...)
DetectorOpen(d) ==
    /\ dpc[d] = "open"
    /\ dpc' = [dpc EXCEPT ![d] = "loop"]
    /\ UNCHANGED <<cfgVars, turnVars, micVars, interrupt_listener_thread,
                   should_stop_interrupt_listener, interrupt_event_ref,
                   active_chunks, ev>>
    /\ UNCHANGED <<ctlVars, playerVars, callVars, speakVars, histVars>>

\* A frame is <<rms, speech_prob>>, the probability in tenths.
\* is_speech_detected = (rms > vad_energy_threshold and
\*                       speech_prob >= vad_confidence_threshold)
IsSpeechDetected(frame) ==
    frame[1] > vad_energy_threshold /\ frame[2] >= vad_confidence_threshold

\* A mutation of NextActiveChunks: an inactive frame resets the count.
NextActiveChunksReset(n, is_speech_detected) ==
    IF is_speech_detected THEN n + 1 ELSE 0

\* active_chunks += 1, or active_chunks = max(0, active_chunks - 1)
NextActiveChunks(n, is_speech_detected) ==
    IF is_speech_detected THEN n + 1 ELSE IF n > 0 THEN n - 1 ELSE 0

\* The frames the capture stream may deliver.
FrameKinds == {<<400, 9>>, <<400, 1>>, <<100, 9>>}

\* The capture stream of a microphone about which nothing is known: any
\* number of frames of any kind.
AnyFrames == <<"any">>

\* One pass of the capture loop up to the threshold test: the stop test,
\* stream.read, the scores, and the update of active_chunks.  When the
\* frames of the stream are given, read takes the next one and blocks
\* when there is none.
DetectorFrame(d) ==
    /\ dpc[d] = "loop"
    /\ IF should_stop_interrupt_listener
       THEN /\ dpc' = [dpc EXCEPT ![d] = "closing"]
            /\ UNCHANGED <<active_chunks, scores, heard>>
       ELSE \E frame \in FrameKinds :
              LET n == NextActiveChunks(active_chunks[d],
                                        IsSpeechDetected(frame))
              IN /\ IF scores = AnyFrames
                    THEN UNCHANGED <<scores, heard>>
                    ELSE /\ scores # <<>>
                         /\ frame = Head(scores)
                         /\ scores' = Tail(scores)
                         /\ heard' = Append(heard, frame)
                 /\ active_chunks' = [active_chunks EXCEPT ![d] = n]
                 /\ dpc' = [dpc EXCEPT ![d] =
                               IF n >= vad_activation_chunks THEN "fire"
                                                             ELSE "loop"]
    /\ UNCHANGED <<cfgVars, turnVars, fired_at, interrupt_listener_thread,
                   should_stop_interrupt_listener, interrupt_event_ref, ev>>
    /\ UNCHANGED <<ctlVars, playerVars, callVars, speakVars, histVars>>

\* if self._interrupt_event_ref and not self._interrupt_event_ref.is_set():
DetectorFire(d) ==
    /\ dpc[d] = "fire"
    /\ IF interrupt_event_ref # 0 /\ ~ev[interrupt_event_ref]
       THEN /\ dpc' = [dpc EXCEPT ![d] = "set"]
            /\ UNCHANGED active_chunks
       ELSE /\ dpc' = [dpc EXCEPT ![d] = "loop"]
            /\ active_chunks' =
                  [active_chunks EXCEPT ![d] = vad_activation_chunks - 1]
    /\ UNCHANGED <<cfgVars, turnVars, micVars, interrupt_listener_thread,
                   should_stop_interrupt_listener, interrupt_event_ref, ev>>
    /\ UNCHANGED <<ctlVars, playerVars, callVars, speakVars, histVars>>

\* self._interrupt_event_ref.set(); active_chunks = vad_activation_chunks - 1
\* The attribute is read again: if it is None by now, the AttributeError is
\* caught by the loop's except clause and active_chunks keeps its value.
DetectorSet(d) ==
    /\ dpc[d] = "set"
    /\ dpc' = [dpc EXCEPT ![d] = "loop"]
    /\ IF interrupt_event_ref = 0
       THEN UNCHANGED <<ev, active_chunks, fired_at>>
       ELSE /\ ev' = [ev EXCEPT ![interrupt_event_ref] = TRUE]
            /\ fired_at' = Len(heard) - 1
            /\ active_chunks' =
                  [active_chunks EXCEPT ![d] = vad_activation_chunks - 1]
    /\ UNCHANGED <<cfgVars, turnVars, scores, heard, interrupt_listener_thread,
                   should_stop_interrupt_listener, interrupt_event_ref>>
    /\ UNCHANGED <<ctlVars, playerVars, callVars, speakVars, histVars>>

\* finally: close the stream; self.should_stop_interrupt_listener.set()
DetectorClose(d) ==
    /\ dpc[d] = "closing"
    /\ dpc' = [dpc EXCEPT ![d] = "dead"]
    /\ should_stop_interrupt_listener' = TRUE
    /\ UNCHANGED <<cfgVars, turnVars, micVars, interrupt_listener_thread,
                   interrupt_event_ref,
                   active_chunks, ev>>
    /\ UNCHANGED <<ctlVars, playerVars, callVars, speakVars, histVars>>

\* The marks left in heard by a stream.read that raised IOError and by a
\* pyaudio.open that raised.
ReadError == <<"read_error">>
OpenFailed == <<"open_failed">>

\* except IOError / except Exception inside the loop: the error is logged
\* and the loop goes on with its stop test.
AfterReadError == "loop"

\* One pass of the capture loop in which stream.read raises.
DetectorReadError(d) ==
    /\ dpc[d] = "loop"
    /\ ~should_stop_interrupt_listener
    /\ Len(heard) < MaxErrors
    /\ heard' = Append(heard, ReadError)
    /\ dpc' = [dpc EXCEPT ![d] = AfterReadError]
    /\ UNCHANGED <<cfgVars, turnVars, scores, fired_at,
                   interrupt_listener_thread, should_stop_interrupt_listener,
                   interrupt_event_ref, active_chunks, ev>>
    /\ UNCHANGED <<ctlVars, playerVars, callVars, speakVars, histVars>>

\* self.pyaudio.open(...) raises: "Error setting up interrupt listener
\* stream", then the finally clause with stream = None, which sets
\* should_stop_interrupt_listener, and the end of the thread.
DetectorOpenFails(d) ==
    /\ dpc[d] = "open"
    /\ Len(heard) < MaxErrors
    /\ heard' = Append(heard, OpenFailed)
    /\ dpc' = [dpc EXCEPT ![d] = "dead"]
    /\ should_stop_interrupt_listener' = TRUE
    /\ UNCHANGED <<cfgVars, turnVars, scores, fired_at,
                   interrupt_listener_thread, interrupt_event_ref,
                   active_chunks, ev>>
    /\ UNCHANGED <<ctlVars, playerVars, callVars, speakVars, histVars>>

Detector(d) ==
    \/ DetectorOpen(d)
    \/ DetectorFrame(d)
    \/ DetectorFire(d)
    \/ DetectorSet(d)
    \/ DetectorClose(d)

\* A caller of the detector, as speak is: interrupt_event =
\* threading.Event(); start_interrupt_listener(interrupt_event)
DriveStartListener ==
    /\ pc = "det_driver"
    /\ phase < MaxPhases
    /\ phase' = phase + 1
    /\ interrupt_event' = phase + 1
    /\ StartInterruptListener(phase + 1)
    /\ UNCHANGED <<ctlVars, cfgVars, turnVars, micVars, ev>>
    /\ UNCHANGED <<kind, response_source, source_fails, full_response_text,
                   tts_buffer, initial_words_spoken, interrupted, audio_ok,
                   final_status_code, status_queue, result>>
    /\ UNCHANGED <<playerVars, callVars, histVars>>

\* A caller of the detector, as the finally clause of speak is:
\* stop_interrupt_listener()
DriveStopListener ==
    /\ pc = "det_driver"
    /\ ncalls < MaxCalls
    /\ ncalls' = ncalls + 1
    /\ StopInterruptListener
    /\ UNCHANGED <<ctlVars, cfgVars, turnVars, micVars, dpc, active_chunks, ev>>
    /\ UNCHANGED <<audio_data, nitems, force, timeout, estimated_remaining,
                   timed_out, queue_empty_time, wait_result>>
    /\ UNCHANGED <<playerVars, speakVars, histVars>>

\* AudioHandler.stop_playback, after player.stop_playback(force):
\* self.detector.stop_interrupt_listener()
AudioHandlerStopDetector ==
    /\ pc = "ah_stop_detector"
    /\ StopInterruptListener
    /\ Return
    /\ UNCHANGED <<cfgVars, turnVars, micVars, dpc, active_chunks, ev>>
    /\ UNCHANGED <<playerVars, callVars, speakVars, histVars>>

(***************************************************************************)
(* Token sources and the synthesizer.                                      *)
(***************************************************************************)
\* The tokens a source may yield.
Tokens == { <<"a">>, <<" ", "a">>, <<",", " ">>, <<".">>, <<"\n">>,
            <<"a", " ", "a", " ", "a", " ", "a", " ">> }

\* The token streams: every sequence of at most MaxTokens tokens.
Streams == UNION {[1..n -> Tokens] : n \in 0..MaxTokens}

\* The streams of the runs that explore the interleavings of the threads.
ShortStreams == UNION {[1..n -> {<<"a">>, <<".">>}] : n \in 0..MaxShort}

\* What tts_handler.synthesize(text) may do: return audio, return an empty
\* array, or raise.
SynthOutcomes == {"ok", "empty", "raise"}

\* str(e) of an exception caught by speak; no token stream yields it.
ErrorText == <<"#">>

\* The response sources: a generator or an async generator over a stream
\* of S, which may raise at its end when F allows, or the stream's text as
\* one string.
Sources(S, K, F) ==
    {[kind |-> k,
      response_source |-> IF k = "str" THEN <<Concat(src)>> ELSE src,
      source_fails |-> (f /\ k # "str")] : src \in S, k \in K, f \in F}

\* A mutation of NewEvent: the Event of the previous phase is used again.
ReusedEvent == IF phase = 0 THEN 1 ELSE interrupt_event

\* interrupt_event = threading.Event(): a new object
NewEvent == phase + 1

\* The set of the elements of a sequence.
Range(q) == {q[i] : i \in 1..Len(q)}

(***************************************************************************)
(* AlpacaInteraction._speak, with tts_enabled and both handlers present.   *)
(***************************************************************************)
\* The entry of _speak up to start_interrupt_listener(interrupt_event);
\* response_source is the argument of the call.
SpeakStart ==
    /\ pc = "ready"
    /\ tts_enabled
    /\ phase' = phase + 1
    /\ interrupt_event' = NewEvent
    /\ full_response_text' = <<>>
    /\ tts_buffer' = <<>>
    /\ initial_words_spoken' = FALSE
    /\ interrupted' = FALSE
    /\ audio_ok' = FALSE
    /\ result' = <<>>
    /\ consumed' = <<>>
    /\ synthesized' = <<>>
    /\ synth_failed' = <<>>
    /\ enqueued' = {}
    /\ play_after_set' = FALSE
    /\ wait_expired' = FALSE
    /\ queued_at_return' = {}
    /\ late_write' = FALSE
    /\ StartInterruptListener(NewEvent)
    /\ pc' = IF kind = "str" THEN "s_string" ELSE "s_loop"
    /\ UNCHANGED <<stack, cfgVars, turnVars, micVars, ev, kind, response_source,
                   source_fails,
                   final_status_code, status_queue>>
    /\ UNCHANGED <<playerVars, callVars>>

\* One pass of "for token in response_source" up to the return of
\* tts_handler.synthesize in _process_tts_buffer.
SpeakToken ==
    /\ pc = "s_loop"
    /\ IF response_source = <<>>
       THEN /\ pc' = IF source_fails THEN "s_except" ELSE "s_final"
            /\ UNCHANGED <<response_source, interrupted, full_response_text,
                           tts_buffer, initial_words_spoken, audio_ok,
                           consumed, synthesized, synth_failed>>
       ELSE LET token == Head(response_source)
                buf == tts_buffer \o token
            IN /\ response_source' = Tail(response_source)
               /\ consumed' = Append(consumed, token)
               /\ IF ev[interrupt_event]
                  THEN /\ interrupted' = TRUE
                       /\ pc' = "s_return"
                       /\ UNCHANGED <<full_response_text, tts_buffer,
                                      initial_words_spoken, audio_ok,
                                      synthesized, synth_failed>>
                  ELSE /\ full_response_text' = full_response_text \o token
                       /\ UNCHANGED interrupted
                       /\ IF SpeakThisChunk(buf, initial_words_spoken)
                             /\ Strip(buf) # <<>>
                          THEN /\ tts_buffer' = RemainingBuffer(buf, TRUE)
                               /\ initial_words_spoken' = TRUE
                               /\ synthesized' = Append(synthesized, Strip(buf))
                               /\ \E o \in SynthOutcomes :
                                    /\ audio_ok' = (o = "ok")
                                    /\ synth_failed' =
                                         IF o = "raise"
                                         THEN Append(synth_failed, Strip(buf))
                                         ELSE synth_failed
                                    /\ pc' = IF o = "raise" THEN "s_loop"
                                                            ELSE "s_check"
                          ELSE /\ tts_buffer' = RemainingBuffer(buf, FALSE)
                               /\ pc' = "s_loop"
                               /\ UNCHANGED <<initial_words_spoken, audio_ok,
                                              synthesized, synth_failed>>
    /\ UNCHANGED <<stack, phase, interrupt_event, kind, source_fails,
                   final_status_code, status_queue, result>>
    /\ UNCHANGED <<enqueued, play_after_set, wait_expired, queued_at_return,
                   late_write>>
    /\ UNCHANGED <<playerVars, callVars, detVars>>

\* _process_tts_buffer after synthesize:
\* if interrupt_event.is_set(): interrupted = True
\* if not interrupted and audio_array is not None and len(audio_array) > 0:
SpeakCheck ==
    /\ pc = "s_check"
    /\ IF ev[interrupt_event]
       THEN /\ interrupted' = TRUE
            /\ pc' = "s_return"
            /\ UNCHANGED <<stack, audio_data, nitems>>
       ELSE IF audio_ok
       THEN /\ audio_data' = nitems + 1
            /\ nitems' = nitems + 1
            /\ Call("play_audio", "s_loop")
            /\ UNCHANGED interrupted
       ELSE /\ pc' = "s_loop"
            /\ UNCHANGED <<stack, interrupted, audio_data, nitems>>
    /\ UNCHANGED <<phase, interrupt_event, kind, response_source, source_fails,
                   full_response_text, tts_buffer, initial_words_spoken,
                   audio_ok, final_status_code, status_queue, result>>
    /\ UNCHANGED <<force, timeout, estimated_remaining, timed_out,
                   queue_empty_time, wait_result, ncalls>>
    /\ UNCHANGED <<playerVars, detVars, histVars>>

\* The string source: synthesize(full_response_text.strip()) in one piece.
SpeakString ==
    /\ pc = "s_string"
    /\ full_response_text' = Head(response_source)
    /\ response_source' = <<>>
    /\ consumed' = <<Head(response_source)>>
    /\ IF Strip(Head(response_source)) # <<>>
       THEN /\ synthesized' = Append(synthesized, Strip(Head(response_source)))
            /\ \E o \in SynthOutcomes :
                 /\ audio_ok' = (o = "ok")
                 /\ synth_failed' =
                      IF o = "raise"
                      THEN Append(synth_failed, Strip(Head(response_source)))
                      ELSE synth_failed
                 /\ pc' = IF o = "raise" THEN "s_final" ELSE "s_string_check"
       ELSE /\ pc' = "s_final"
            /\ UNCHANGED <<audio_ok, synthesized, synth_failed>>
    /\ UNCHANGED <<stack, phase, interrupt_event, kind, source_fails,
                   tts_buffer, initial_words_spoken, interrupted,
                   final_status_code, status_queue, result>>
    /\ UNCHANGED <<enqueued, play_after_set, wait_expired, queued_at_return,
                   late_write>>
    /\ UNCHANGED <<playerVars, callVars, detVars>>

\* if interrupt_event.is_set(): interrupted = True   (string source)
\* if not interrupted and audio_array is not None and len(audio_array) > 0:
SpeakStringCheck ==
    /\ pc = "s_string_check"
    /\ IF ev[interrupt_event]
       THEN /\ interrupted' = TRUE
            /\ pc' = "s_final"
            /\ UNCHANGED <<stack, audio_data, nitems>>
       ELSE IF audio_ok
       THEN /\ audio_data' = nitems + 1
            /\ nitems' = nitems + 1
            /\ Call("play_audio", "s_final")
            /\ UNCHANGED interrupted
       ELSE /\ pc' = "s_final"
            /\ UNCHANGED <<stack, interrupted, audio_data, nitems>>
    /\ UNCHANGED <<phase, interrupt_event, kind, response_source, source_fails,
                   full_response_text, tts_buffer, initial_words_spoken,
                   audio_ok, final_status_code, status_queue, result>>
    /\ UNCHANGED <<force, timeout, estimated_remaining, timed_out,
                   queue_empty_time, wait_result, ncalls>>
    /\ UNCHANGED <<playerVars, detVars, histVars>>

\* Final buffer handling: if not interrupted and tts_buffer.strip():
\* synthesize(tts_buffer.strip())
SpeakFinal ==
    /\ pc = "s_final"
    /\ IF ~interrupted /\ Strip(tts_buffer) # <<>>
       THEN /\ synthesized' = Append(synthesized, Strip(tts_buffer))
            /\ \E o \in SynthOutcomes :
                 /\ audio_ok' = (o = "ok")
                 /\ synth_failed' = IF o = "raise"
                                    THEN Append(synth_failed, Strip(tts_buffer))
                                    ELSE synth_failed
                 /\ pc' = IF o = "raise" THEN "s_wait" ELSE "s_final_check"
       ELSE /\ pc' = "s_wait"
            /\ UNCHANGED <<audio_ok, synthesized, synth_failed>>
    /\ UNCHANGED <<stack, phase, interrupt_event, kind, response_source,
                   source_fails, full_response_text, tts_buffer,
                   initial_words_spoken, interrupted, final_status_code,
                   status_queue, result>>
    /\ UNCHANGED <<consumed, enqueued, play_after_set, wait_expired,
                   queued_at_return, late_write>>
    /\ UNCHANGED <<playerVars, callVars, detVars>>

\* if not interrupt_event.is_set() and audio_array is not None and
\* len(audio_array) > 0: play_audio          (final buffer)
SpeakFinalCheck ==
    /\ pc = "s_final_check"
    /\ IF ~ev[interrupt_event] /\ audio_ok
       THEN /\ audio_data' = nitems + 1
            /\ nitems' = nitems + 1
            /\ Call("play_audio", "s_wait")
       ELSE /\ pc' = "s_wait"
            /\ UNCHANGED <<stack, audio_data, nitems>>
    /\ UNCHANGED <<force, timeout, estimated_remaining, timed_out,
                   queue_empty_time, wait_result, ncalls>>
    /\ UNCHANGED <<playerVars, detVars, speakVars, histVars>>

\* Wait for playback completion: if not interrupted:
\* while audio_handler.player.is_playing:
SpeakWait ==
    /\ pc = "s_wait"
    /\ pc' = IF ~interrupted /\ is_playing THEN "s_wait_check" ELSE "s_return"
    /\ UNCHANGED stack
    /\ UNCHANGED <<playerVars, callVars, detVars, speakVars, histVars>>

\* The body of the wait loop: the interrupt test, the 60 s limit, the sleep.
SpeakWaitCheck ==
    /\ pc = "s_wait_check"
    /\ IF ev[interrupt_event]
       THEN /\ interrupted' = TRUE
            /\ pc' = "s_return"
            /\ UNCHANGED wait_expired
       ELSE \E expired \in BOOLEAN :
              /\ interrupted' = expired
              /\ wait_expired' = expired
              /\ pc' = IF expired THEN "s_return" ELSE "s_wait"
    /\ UNCHANGED <<stack, phase, interrupt_event, kind, response_source,
                   source_fails, full_response_text, tts_buffer,
                   initial_words_spoken, audio_ok, final_status_code,
                   status_queue, result>>
    /\ UNCHANGED <<consumed, synthesized, synth_failed, enqueued,
                   play_after_set, queued_at_return, late_write>>
    /\ UNCHANGED <<playerVars, callVars, detVars>>

\* Return status: if interrupted: audio_handler.stop_playback() ...
\* else: return ("COMPLETED", full_response_text), through the finally
\* clause (stop_interrupt_listener).
SpeakReturn ==
    /\ pc = "s_return"
    /\ IF interrupted
       THEN /\ force' = FALSE
            /\ pc' = "stop_playback"
            /\ stack' = <<"ah_stop_detector", "s_interrupted">> \o stack
            /\ UNCHANGED <<result, interrupt_listener_thread,
                           should_stop_interrupt_listener,
                           interrupt_event_ref, queued_at_return>>
       ELSE /\ result' = <<"COMPLETED", full_response_text>>
            /\ queued_at_return' = Range(audio_queue)
            /\ StopInterruptListener
            /\ pc' = "idle"
            /\ UNCHANGED <<stack, force>>
    /\ UNCHANGED <<phase, interrupt_event, kind, response_source, source_fails,
                   full_response_text, tts_buffer, initial_words_spoken,
                   interrupted, audio_ok, final_status_code, status_queue>>
    /\ UNCHANGED <<audio_data, nitems, timeout, estimated_remaining, timed_out,
                   queue_empty_time, wait_result, ncalls>>
    /\ UNCHANGED <<cfgVars, turnVars, micVars, dpc, active_chunks, ev>>
    /\ UNCHANGED <<consumed, synthesized, synth_failed, enqueued,
                   play_after_set, wait_expired, late_write>>
    /\ UNCHANGED playerVars

\* return ("INTERRUPTED", full_response_text), through the finally clause.
SpeakInterrupted ==
    /\ pc = "s_interrupted"
    /\ result' = <<"INTERRUPTED", full_response_text>>
    /\ queued_at_return' = Range(audio_queue)
    /\ StopInterruptListener
    /\ pc' = "idle"
    /\ UNCHANGED <<stack, phase, interrupt_event, kind, response_source,
                   source_fails, full_response_text, tts_buffer,
                   initial_words_spoken, interrupted, audio_ok,
                   final_status_code, status_queue>>
    /\ UNCHANGED <<cfgVars, turnVars, micVars, dpc, active_chunks, ev>>
    /\ UNCHANGED <<consumed, synthesized, synth_failed, enqueued,
                   play_after_set, wait_expired, late_write>>
    /\ UNCHANGED <<playerVars, callVars>>

\* except Exception as e: audio_handler.stop_playback()
SpeakExcept ==
    /\ pc = "s_except"
    /\ force' = FALSE
    /\ pc' = "stop_playback"
    /\ stack' = <<"ah_stop_detector", "s_error">> \o stack
    /\ UNCHANGED <<audio_data, nitems, timeout, estimated_remaining, timed_out,
                   queue_empty_time, wait_result, ncalls>>
    /\ UNCHANGED <<playerVars, detVars, speakVars, histVars>>

\* return ("ERROR", str(e)), through the finally clause.
SpeakError ==
    /\ pc = "s_error"
    /\ result' = <<"ERROR", ErrorText>>
    /\ queued_at_return' = Range(audio_queue)
    /\ StopInterruptListener
    /\ pc' = "idle"
    /\ UNCHANGED <<stack, phase, interrupt_event, kind, response_source,
                   source_fails, full_response_text, tts_buffer,
                   initial_words_spoken, interrupted, audio_ok,
                   final_status_code, status_queue>>
    /\ UNCHANGED <<cfgVars, turnVars, micVars, dpc, active_chunks, ev>>
    /\ UNCHANGED <<consumed, synthesized, synth_failed, enqueued,
                   play_after_set, wait_expired, late_write>>
    /\ UNCHANGED <<playerVars, callVars>>

\* _speak with TTS disabled: a string is returned as it is, a generator is
\* joined (an exception while joining is ignored and leaves the text
\* empty), and a source of any other type is left untouched.
SpeakDisabled ==
    /\ pc = "ready"
    /\ ~tts_enabled
    /\ IF kind \in {"str", "gen"}
       THEN /\ consumed' = response_source
            /\ response_source' = <<>>
            /\ full_response_text' =
                  IF source_fails THEN <<>> ELSE Concat(response_source)
       ELSE /\ full_response_text' = <<>>
            /\ UNCHANGED <<consumed, response_source>>
    /\ result' = <<"DISABLED", full_response_text'>>
    /\ pc' = "idle"
    /\ UNCHANGED <<stack, phase, interrupt_event, kind, source_fails,
                   tts_buffer, initial_words_spoken, interrupted, audio_ok,
                   final_status_code, status_queue>>
    /\ UNCHANGED <<synthesized, synth_failed, enqueued, play_after_set,
                   wait_expired, queued_at_return, late_write>>
    /\ UNCHANGED <<playerVars, callVars, detVars>>

\* Between two Speak phases the turn logic obtains the next response source.
Respond(R) ==
    /\ pc = "idle"
    /\ phase < MaxPhases
    /\ \E r \in R :
          /\ kind' = r.kind
          /\ response_source' = r.response_source
          /\ source_fails' = r.source_fails
    /\ pc' = "ready"
    /\ UNCHANGED <<stack, phase, interrupt_event, full_response_text,
                   tts_buffer, initial_words_spoken, interrupted, audio_ok,
                   final_status_code, status_queue, result>>
    /\ UNCHANGED <<playerVars, callVars, detVars, histVars>>

Speak ==
    \/ SpeakStart
    \/ SpeakToken
    \/ SpeakCheck
    \/ SpeakString
    \/ SpeakStringCheck
    \/ SpeakFinal
    \/ SpeakFinalCheck
    \/ SpeakWait
    \/ SpeakWaitCheck
    \/ SpeakReturn
    \/ SpeakInterrupted
    \/ SpeakExcept
    \/ SpeakError

(***************************************************************************)
(* OutputHandler.speak, with tts_enabled, the handlers and the detector    *)
(* present, interruptions enabled and a status queue attached.             *)
(***************************************************************************)
\* The entry of speak: put_status("Speaking"), start_interrupt_listener.
OutStart ==
    /\ pc = "o_ready"
    /\ tts_enabled
    /\ phase' = phase + 1
    /\ interrupt_event' = NewEvent
    /\ full_response_text' = <<>>
    /\ tts_buffer' = <<>>
    /\ initial_words_spoken' = FALSE
    /\ interrupted' = FALSE
    /\ audio_ok' = FALSE
    /\ final_status_code' = "ERROR"
    /\ status_queue' = <<<<"status", "Speaking">>>>
    /\ result' = <<>>
    /\ consumed' = <<>>
    /\ synthesized' = <<>>
    /\ synth_failed' = <<>>
    /\ StartInterruptListener(NewEvent)
    /\ pc' = IF kind = "str" THEN "o_string" ELSE "o_loop"
    /\ UNCHANGED <<stack, cfgVars, turnVars, micVars, ev, kind, response_source,
                   source_fails>>
    /\ UNCHANGED <<enqueued, play_after_set, wait_expired, queued_at_return,
                   late_write>>
    /\ UNCHANGED <<playerVars, callVars>>

\* One pass of "for token in response_source" up to the return of
\* tts_handler.synthesize in OutputHandler._process_tts_buffer; when
\* synthesize raises, the helper returns interrupted = True.
OutToken ==
    /\ pc = "o_loop"
    /\ IF response_source = <<>>
       THEN /\ pc' = IF source_fails THEN "o_except" ELSE "o_final"
            /\ UNCHANGED <<stack, response_source, interrupted,
                           full_response_text, tts_buffer,
                           initial_words_spoken, audio_ok, consumed,
                           synthesized, synth_failed>>
       ELSE LET token == Head(response_source)
                buf == tts_buffer \o token
            IN /\ response_source' = Tail(response_source)
               /\ consumed' = Append(consumed, token)
               /\ IF ev[interrupt_event]
                  THEN /\ interrupted' = TRUE
                       /\ pc' = "o_return"
                       /\ UNCHANGED <<stack, full_response_text, tts_buffer,
                                      initial_words_spoken, audio_ok,
                                      synthesized, synth_failed>>
                  ELSE /\ full_response_text' = full_response_text \o token
                       /\ IF SpeakThisChunk(buf, initial_words_spoken)
                             /\ Strip(buf) # <<>>
                          THEN /\ tts_buffer' = RemainingBuffer(buf, TRUE)
                               /\ initial_words_spoken' = TRUE
                               /\ synthesized' = Append(synthesized, Strip(buf))
                               /\ \E o \in SynthOutcomes :
                                    /\ audio_ok' = (o = "ok")
                                    /\ synth_failed' =
                                         IF o = "raise"
                                         THEN Append(synth_failed, Strip(buf))
                                         ELSE synth_failed
                                    /\ interrupted' = (o = "raise")
                                    /\ IF o = "raise"
                                       THEN /\ pc' = "o_return"
                                            /\ UNCHANGED stack
                                       ELSE Call("o_check", "o_loop")
                          ELSE /\ tts_buffer' = RemainingBuffer(buf, FALSE)
                               /\ pc' = "o_loop"
                               /\ UNCHANGED <<stack, interrupted,
                                              initial_words_spoken, audio_ok,
                                              synthesized, synth_failed>>
    /\ UNCHANGED <<phase, interrupt_event, kind, source_fails,
                   final_status_code, status_queue, result>>
    /\ UNCHANGED <<enqueued, play_after_set, wait_expired, queued_at_return,
                   late_write>>
    /\ UNCHANGED <<playerVars, callVars, detVars>>

\* OutputHandler._process_tts_buffer after synthesize:
\* if interrupt_event.is_set(): interrupted = True
\* if not interrupted and audio_array is not None and len(audio_array) > 0:
\*     await status_queue.put({"type": "audio_chunk", ...})
OutCheck ==
    /\ pc = "o_check"
    /\ IF ev[interrupt_event]
       THEN /\ interrupted' = TRUE
            /\ pc' = "o_return"
            /\ stack' = Tail(stack)
            /\ UNCHANGED status_queue
       ELSE /\ status_queue' =
                 IF audio_ok
                 THEN Append(status_queue,
                             <<"audio_chunk", synthesized[Len(synthesized)]>>)
                 ELSE status_queue
            /\ Return
            /\ UNCHANGED interrupted
    /\ UNCHANGED <<phase, interrupt_event, kind, response_source, source_fails,
                   full_response_text, tts_buffer, initial_words_spoken,
                   audio_ok, final_status_code, result>>
    /\ UNCHANGED <<playerVars, callVars, detVars, histVars>>

\* The string source: _process_tts_buffer(full_response_text, False, ...)
OutString ==
    /\ pc = "o_string"
    /\ LET text == Head(response_source)
       IN /\ full_response_text' = text
          /\ response_source' = <<>>
          /\ consumed' = <<text>>
          /\ IF Strip(text) # <<>> /\ SpeakThisChunk(text, FALSE)
             THEN /\ tts_buffer' = <<>>
                  /\ initial_words_spoken' = TRUE
                  /\ synthesized' = Append(synthesized, Strip(text))
                  /\ \E o \in SynthOutcomes :
                       /\ audio_ok' = (o = "ok")
                       /\ synth_failed' = IF o = "raise"
                                          THEN Append(synth_failed, Strip(text))
                                          ELSE synth_failed
                       /\ interrupted' = (o = "raise")
                       /\ IF o = "raise"
                          THEN /\ pc' = "o_return"
                               /\ UNCHANGED stack
                          ELSE Call("o_check", "o_final")
             ELSE /\ tts_buffer' = IF Strip(text) # <<>> THEN text ELSE <<>>
                  /\ pc' = "o_final"
                  /\ UNCHANGED <<stack, interrupted, initial_words_spoken,
                                 audio_ok, synthesized, synth_failed>>
    /\ UNCHANGED <<phase, interrupt_event, kind, source_fails,
                   final_status_code, status_queue, result>>
    /\ UNCHANGED <<enqueued, play_after_set, wait_expired, queued_at_return,
                   late_write>>
    /\ UNCHANGED <<playerVars, callVars, detVars>>

\* if not interrupted and tts_buffer.strip():
\*     _process_tts_buffer(tts_buffer.strip(), initial_words_spoken, ...)
OutFinal ==
    /\ pc = "o_final"
    /\ LET text == Strip(tts_buffer)
       IN IF ~interrupted /\ text # <<>>
             /\ SpeakThisChunk(text, initial_words_spoken)
          THEN /\ UNCHANGED initial_words_spoken
               /\ synthesized' = Append(synthesized, Strip(text))
               /\ \E o \in SynthOutcomes :
                    /\ audio_ok' = (o = "ok")
                    /\ synth_failed' = IF o = "raise"
                                       THEN Append(synth_failed, Strip(text))
                                       ELSE synth_failed
                    /\ interrupted' = (o = "raise")
                    /\ IF o = "raise"
                       THEN /\ pc' = "o_return"
                            /\ UNCHANGED stack
                       ELSE Call("o_check", "o_return")
          ELSE /\ pc' = "o_return"
               /\ UNCHANGED <<stack, interrupted, initial_words_spoken,
                              audio_ok, synthesized, synth_failed>>
    /\ UNCHANGED <<phase, interrupt_event, kind, response_source, source_fails,
                   full_response_text, tts_buffer, final_status_code,
                   status_queue, result>>
    /\ UNCHANGED <<consumed, enqueued, play_after_set, wait_expired,
                   queued_at_return, late_write>>
    /\ UNCHANGED <<playerVars, callVars, detVars>>

\* The final status: final_status_code still holds its initial "ERROR"
\* unless the turn was interrupted; then the finally clause.
OutReturn ==
    /\ pc = "o_return"
    /\ LET code == IF interrupted THEN "INTERRUPTED"
                   ELSE IF final_status_code # "ERROR" THEN "COMPLETED"
                   ELSE final_status_code
           state == IF interrupted THEN "Interrupted" ELSE "Idle"
       IN /\ final_status_code' = code
          /\ status_queue' = Append(status_queue, <<"status", state>>)
          /\ result' = <<code, full_response_text>>
    /\ StopInterruptListener
    /\ pc' = "idle"
    /\ UNCHANGED <<stack, phase, interrupt_event, kind, response_source,
                   source_fails, full_response_text, tts_buffer,
                   initial_words_spoken, interrupted, audio_ok>>
    /\ UNCHANGED <<cfgVars, turnVars, micVars, dpc, active_chunks, ev>>
    /\ UNCHANGED <<playerVars, callVars, histVars>>

\* except Exception as e: put_status("Error"); return ("ERROR", str(e))
OutExcept ==
    /\ pc = "o_except"
    /\ status_queue' = Append(status_queue, <<"status", "Error">>)
    /\ result' = <<"ERROR", ErrorText>>
    /\ StopInterruptListener
    /\ pc' = "idle"
    /\ UNCHANGED <<stack, phase, interrupt_event, kind, response_source,
                   source_fails, full_response_text, tts_buffer,
                   initial_words_spoken, interrupted, audio_ok,
                   final_status_code>>
    /\ UNCHANGED <<cfgVars, turnVars, micVars, dpc, active_chunks, ev>>
    /\ UNCHANGED <<playerVars, callVars, histVars>>

\* speak with TTS disabled: a string is returned as it is, a generator or
\* an async generator is joined (an exception while joining is logged and
\* leaves the text empty); put_status("Disabled").
OutDisabled ==
    /\ pc = "o_ready"
    /\ ~tts_enabled
    /\ consumed' = response_source
    /\ response_source' = <<>>
    /\ full_response_text' =
          IF source_fails THEN <<>> ELSE Concat(response_source)
    /\ status_queue' = Append(status_queue, <<"status", "Disabled">>)
    /\ result' = <<"DISABLED", full_response_text'>>
    /\ pc' = "idle"
    /\ UNCHANGED <<stack, phase, interrupt_event, kind, source_fails,
                   tts_buffer, initial_words_spoken, interrupted, audio_ok,
                   final_status_code>>
    /\ UNCHANGED <<synthesized, synth_failed, enqueued, play_after_set,
                   wait_expired, queued_at_return, late_write>>
    /\ UNCHANGED <<playerVars, callVars, detVars>>

Out ==
    \/ OutStart
    \/ OutToken
    \/ OutCheck
    \/ OutString
    \/ OutFinal
    \/ OutReturn
    \/ OutExcept

(***************************************************************************)
(* The turn: AlpacaInteraction.run_single_interaction with _listen and     *)
(* AudioHandler.listen_for_speech.  The Speak phase is taken as a whole:   *)
(* what _speak returns and the state of is_playing it leaves behind.       *)
(***************************************************************************)
\* What one pass of the retry loop of listen_for_speech may meet: captured
\* audio, sr.WaitTimeoutError, an energy threshold below min_energy, or any
\* other exception.
AttemptOutcomes == {"audio", "timeout", "low_energy", "error"}

\* A mutation of RetryAgain: one retry more.
RetryOnceMore(n) == n <= max_retries

\* if retry_count < self.max_retries
RetryAgain(n) == n < max_retries

\* A mutation of ListenRefused: only the audio handler is required.
ListenRefusedNoHandler == ~audio_handler

\* if not audio_handler or not transcriber
ListenRefused == ~audio_handler \/ ~transcriber

\* The values of _listen on which the Interaction returns before Processing.
ListenFailures == {"TIMEOUT_ERROR", "low_energy", "", "ERROR", "None"}

\* A mutation of ListenStatus: the value of _listen is returned as it is.
ListenStatusAsHeard(text) == text

\* transcribed_text or "ERROR"
ListenStatus(text) == IF text \in {"", "None"} THEN "ERROR" ELSE text

\* The canned text returned with a listen failure.
ApologyText == <<"sorry">>

\* What _speak may return: any of its four statuses; the text of an ERROR
\* is str(e), the text of the others may be empty.
SpeakResults ==
    {<<s, t>> : s \in {"COMPLETED", "INTERRUPTED", "DISABLED"},
                t \in {<<>>, <<"a">>}} \cup {<<"ERROR", ErrorText>>}

\* A mutation of AddUserMessage: the entry is put in front of the others.
AddUserMessageInFront(history, t) == << <<"user", t>> >> \o history

\* ConversationManager.add_user_message(text), text not empty
AddUserMessage(history, t) == Append(history, <<"user", t>>)

\* A mutation of AddAssistantMessage: the entry is appended whatever the text.
AddAssistantMessageAlways(history, text, t) ==
    Append(history, <<"assistant", t>>)

\* if ai_response_text: add_assistant_message(ai_response_text)
AddAssistantMessage(history, text, t) ==
    IF text # <<>> THEN Append(history, <<"assistant", t>>) ELSE history

\* run_single_interaction up to "# 1. Listen": without an audio handler it
\* returns ERROR; playback in progress is stopped first.
RunStart ==
    /\ pc = "run_start"
    /\ IF ~audio_handler
       THEN /\ turn_result' = <<"ERROR", ErrorText>>
            /\ pc' = "loop_result"
            /\ UNCHANGED <<stack, force>>
       ELSE IF is_playing
       THEN /\ force' = FALSE
            /\ pc' = "stop_playback"
            /\ stack' = <<"ah_stop_detector", "listen">> \o stack
            /\ UNCHANGED turn_result
       ELSE /\ pc' = "listen"
            /\ UNCHANGED <<stack, force, turn_result>>
    /\ UNCHANGED <<turn, conversation_history, phases_run, slept>>
    /\ UNCHANGED <<audio_data, nitems, timeout, estimated_remaining, timed_out,
                   queue_empty_time, wait_result, ncalls>>
    /\ UNCHANGED <<cfgVars, listenVars, shutVars, listenerVars>>
    /\ UNCHANGED <<playerVars, speakVars, histVars>>

\* _listen up to the call of listen_for_speech, and the entry of
\* listen_for_speech up to its retry loop.  When the player's flag is set,
\* stop_playback() and wait_for_playback_complete(timeout=2.0) come first.
ListenStart ==
    /\ pc = "listen"
    /\ IF ListenRefused
       THEN /\ transcribed_text' = "ERROR"
            /\ pc' = "listened"
            /\ UNCHANGED <<stack, force, timeout, phases_run, retry_count,
                           audio_file, attempts, last_attempt>>
       ELSE IF is_playing
       THEN /\ force' = FALSE
            /\ timeout' = "given"
            /\ pc' = "stop_playback"
            /\ stack' = <<"ah_stop_detector", "wait_for_playback_complete",
                          "listen_waited">> \o stack
            /\ UNCHANGED <<phases_run, listenVars>>
       ELSE /\ phases_run' = phases_run \cup {"listen"}
            /\ retry_count' = 0
            /\ audio_file' = "None"
            /\ attempts' = 0
            /\ last_attempt' = "none"
            /\ pc' = "listen_attempt"
            /\ UNCHANGED <<stack, force, timeout, transcribed_text>>
    /\ UNCHANGED <<turn, conversation_history, turn_result, slept>>
    /\ UNCHANGED <<audio_data, nitems, estimated_remaining, timed_out,
                   queue_empty_time, wait_result, ncalls>>
    /\ UNCHANGED <<cfgVars, shutVars, listenerVars>>
    /\ UNCHANGED <<playerVars, speakVars, histVars>>

\* _listen after wait_for_playback_complete(timeout=2.0): an exception
\* raised by the wait is caught by "except Exception" (return "ERROR");
\* otherwise listen_for_speech is called and reaches its retry loop.
ListenAfterStop ==
    /\ pc = "listen_waited"
    /\ IF wait_result = "exception"
       THEN /\ transcribed_text' = "ERROR"
            /\ pc' = "listened"
            /\ UNCHANGED <<phases_run, retry_count, audio_file, attempts,
                           last_attempt>>
       ELSE /\ phases_run' = phases_run \cup {"listen"}
            /\ retry_count' = 0
            /\ audio_file' = "None"
            /\ attempts' = 0
            /\ last_attempt' = "none"
            /\ pc' = "listen_attempt"
            /\ UNCHANGED transcribed_text
    /\ UNCHANGED <<stack, turn, conversation_history, turn_result, slept>>
    /\ UNCHANGED <<cfgVars, shutVars, listenerVars>>
    /\ UNCHANGED <<playerVars, callVars, speakVars, histVars>>

\* One pass of "while retry_count <= self.max_retries": a capture attempt
\* and what follows from its outcome.
ListenAttempt ==
    /\ pc = "listen_attempt"
    /\ IF retry_count > max_retries
       THEN /\ audio_file' = "TIMEOUT_ERROR"
            /\ pc' = "transcribe"
            /\ UNCHANGED <<retry_count, attempts, last_attempt>>
       ELSE \E outcome \in AttemptOutcomes :
              /\ attempts' = attempts + 1
              /\ last_attempt' = outcome
              /\ IF outcome = "audio"
                 THEN /\ audio_file' = "file"
                      /\ pc' = "transcribe"
                      /\ UNCHANGED retry_count
                 ELSE IF RetryAgain(retry_count)
                 THEN /\ retry_count' = retry_count + 1
                      /\ UNCHANGED <<pc, audio_file>>
                 ELSE /\ audio_file' =
                            CASE outcome = "timeout" -> "TIMEOUT_ERROR"
                              [] outcome = "low_energy" -> "low_energy"
                              [] OTHER -> "None"
                      /\ pc' = "transcribe"
                      /\ UNCHANGED retry_count
    /\ UNCHANGED <<stack, transcribed_text>>
    /\ UNCHANGED <<cfgVars, runVars, shutVars, listenerVars>>
    /\ UNCHANGED <<playerVars, callVars, speakVars, histVars>>

\* _listen after listen_for_speech: a failed capture is returned as it is
\* (None as "ERROR"); otherwise transcriber.transcribe returns a text,
\* returns None or an empty text, or raises.
Transcribe ==
    /\ pc = "transcribe"
    /\ IF audio_file # "file"
       THEN transcribed_text' =
               IF audio_file = "None" THEN "ERROR" ELSE audio_file
       ELSE IF ~transcriber
       THEN transcribed_text' = "ERROR"
       ELSE \E t \in {"text", "", "ERROR"} : transcribed_text' = t
    /\ pc' = "listened"
    /\ UNCHANGED <<stack, retry_count, audio_file, attempts, last_attempt>>
    /\ UNCHANGED <<cfgVars, runVars, shutVars, listenerVars>>
    /\ UNCHANGED <<playerVars, callVars, speakVars, histVars>>

\* "# Handle listen errors" and "# 2. Add user message to history"
RunListened ==
    /\ pc = "listened"
    /\ IF transcribed_text \in ListenFailures
       THEN /\ turn_result' = <<ListenStatus(transcribed_text), ApologyText>>
            /\ pc' = "loop_result"
            /\ UNCHANGED conversation_history
       ELSE /\ conversation_history' =
                  AddUserMessage(conversation_history, turn)
            /\ pc' = "process"
            /\ UNCHANGED turn_result
    /\ UNCHANGED <<stack, turn, phases_run, slept>>
    /\ UNCHANGED <<cfgVars, listenVars, shutVars, listenerVars>>
    /\ UNCHANGED <<playerVars, callVars, speakVars, histVars>>

\* response_source = await self._process_and_respond(): the request to the
\* LLM returns a token source or raises.
RunProcess ==
    /\ pc = "process"
    /\ \E raised \in BOOLEAN :
          IF raised
          THEN /\ phases_run' = phases_run \cup {"process", "process_raised"}
               /\ pc' = "run_except"
          ELSE /\ phases_run' = phases_run \cup {"process"}
               /\ pc' = "speak"
    /\ UNCHANGED <<stack, turn, conversation_history, turn_result, slept>>
    /\ UNCHANGED <<cfgVars, listenVars, shutVars, listenerVars>>
    /\ UNCHANGED <<playerVars, callVars, speakVars, histVars>>

\* speak_status, ai_response_text = await self._speak(response_source)
RunSpeak ==
    /\ pc = "speak"
    /\ phases_run' = phases_run \cup {"speak"}
    /\ \E r \in SpeakResults : result' = r
    /\ \E p \in BOOLEAN : is_playing' = p
    /\ pc' = "spoken"
    /\ UNCHANGED <<stack, turn, conversation_history, turn_result, slept>>
    /\ UNCHANGED <<audio_queue, should_stop_playback, playback_thread, wpc,
                   witem, sink, sink_errors>>
    /\ UNCHANGED <<phase, interrupt_event, kind, response_source, source_fails,
                   full_response_text, tts_buffer, initial_words_spoken,
                   interrupted, audio_ok, final_status_code, status_queue>>
    /\ UNCHANGED <<cfgVars, listenVars, shutVars, listenerVars>>
    /\ UNCHANGED <<callVars, histVars>>

\* "# 5. Add assistant message to history" and the return of the status
\* and the text of _speak
RunSpoken ==
    /\ pc = "spoken"
    /\ conversation_history' =
          AddAssistantMessage(conversation_history, result[2], turn)
    /\ turn_result' = result
    /\ pc' = "loop_result"
    /\ UNCHANGED <<stack, turn, phases_run, slept>>
    /\ UNCHANGED <<cfgVars, listenVars, shutVars, listenerVars>>
    /\ UNCHANGED <<playerVars, callVars, speakVars, histVars>>

\* except Exception as e: if audio_handler: audio_handler.stop_playback()
RunExcept ==
    /\ pc = "run_except"
    /\ force' = FALSE
    /\ pc' = "stop_playback"
    /\ stack' = <<"ah_stop_detector", "run_error">> \o stack
    /\ UNCHANGED <<audio_data, nitems, timeout, estimated_remaining, timed_out,
                   queue_empty_time, wait_result, ncalls>>
    /\ UNCHANGED <<playerVars, detVars, speakVars, histVars>>

\* return "ERROR", str(e)
RunError ==
    /\ pc = "run_error"
    /\ turn_result' = <<"ERROR", ErrorText>>
    /\ pc' = "loop_result"
    /\ UNCHANGED <<stack, turn, conversation_history, phases_run, slept>>
    /\ UNCHANGED <<cfgVars, listenVars, shutVars, listenerVars>>
    /\ UNCHANGED <<playerVars, callVars, speakVars, histVars>>

(***************************************************************************)
(* The loops that run the turns: main (a flag set by the SIGINT handler)   *)
(* and run_voice_interaction_loop (cancellation of the loop's task).       *)
(* Handlers and cancellations run only when the event loop has control,    *)
(* that is while a coroutine is suspended in an await.                     *)
(***************************************************************************)
\* A mutation of NeedsRecovery: every status but COMPLETED is recovered.
NeedsRecoveryUnlessCompleted(status) == status # "COMPLETED"

\* if user_input_status == "ERROR"
NeedsRecovery(status) == status = "ERROR"

\* A mutation of AfterRecovery: the loop ends after the recovery sleep.
LoopEndsAfterRecovery == "exited"

\* The position of the loop after "await asyncio.sleep(2)": the next pass.
AfterRecovery == "loop_top"

\* A call of run_single_interaction is in progress.
InFlight == turn > 0 /\ turn_result = <<>> /\ pc # "exited"

\* The positions at which the loop or its Interaction is suspended in an
\* await: the request to the LLM, the waits of _speak, the recovery sleep,
\* and, in the voice loop, the polling sleep that ends the turn.
SuspensionPoints ==
    {"process", "speak", "recovery_sleep"}
       \cup (IF host = "voice" THEN {"loop_result"} ELSE {})

\* main: "while not shutdown_requested", then the call of
\* run_single_interaction; voice loop: "while True", then create_task.
LoopTop ==
    /\ pc = "loop_top"
    /\ IF host = "main" /\ shutdown_requested
       THEN /\ pc' = "finally"
            /\ UNCHANGED <<turn, turn_result, phases_run>>
       ELSE /\ turn < MaxTurns
            /\ turn' = turn + 1
            /\ turn_result' = <<>>
            /\ phases_run' = {}
            /\ pc' = "run_start"
    /\ UNCHANGED <<stack, conversation_history, slept>>
    /\ UNCHANGED <<cfgVars, listenVars, shutVars, listenerVars>>
    /\ UNCHANGED <<playerVars, callVars, speakVars, histVars>>

\* The status of the Interaction is examined; in the voice loop the polling
\* sleep comes first and receives a pending cancellation.  The body of
\* run_single_interaction lies in a try whose except clause catches every
\* Exception (RunExcept), so the call always returns a status and the
\* "except Exception" clause of the loop is not entered.
LoopResult ==
    /\ pc = "loop_result"
    /\ ~(host = "voice" /\ pending)
    /\ slept' = FALSE
    /\ pc' = IF NeedsRecovery(turn_result[1]) THEN "recovery_sleep"
                                              ELSE "loop_top"
    /\ UNCHANGED <<stack, turn, conversation_history, turn_result, phases_run>>
    /\ UNCHANGED <<cfgVars, listenVars, shutVars, listenerVars>>
    /\ UNCHANGED <<playerVars, callVars, speakVars, histVars>>

\* await asyncio.sleep(2) is over; a handler that was pending has run.
RecoverySleep ==
    /\ pc = "recovery_sleep"
    /\ ~pending
    /\ slept' = TRUE
    /\ pc' = AfterRecovery
    /\ UNCHANGED <<stack, turn, conversation_history, turn_result, phases_run>>
    /\ UNCHANGED <<cfgVars, listenVars, shutVars, listenerVars>>
    /\ UNCHANGED <<playerVars, callVars, speakVars, histVars>>

\* The shutdown request arrives while the loop runs: SIGINT for main, whose
\* handler is registered with the event loop, a cancellation of the task
\* for the voice loop.
ShutdownRequest ==
    /\ pc \notin {"summarize", "cleanup", "exited"}
    /\ signals < MaxSignals
    /\ signals' = signals + 1
    /\ pending' = TRUE
    /\ request_turn' = IF request_turn = 0 /\ InFlight THEN turn
                                                      ELSE request_turn
    /\ UNCHANGED <<shutdown_requested, summaries, cleanups>>
    /\ UNCHANGED <<ctlVars, cfgVars, listenVars, runVars, listenerVars>>
    /\ UNCHANGED <<playerVars, callVars, speakVars, histVars>>

\* main: handle_shutdown_signal sets the flag.  Voice loop: CancelledError
\* is raised in the suspended await, the Interaction's task is cancelled
\* and the loop is left.
HandleShutdownSignal ==
    /\ pending
    /\ pc \in SuspensionPoints
    /\ pending' = FALSE
    /\ IF host = "main"
       THEN /\ shutdown_requested' = TRUE
            /\ UNCHANGED pc
       ELSE /\ pc' = "exited"
            /\ UNCHANGED shutdown_requested
    /\ UNCHANGED <<stack, signals, request_turn, summaries, cleanups>>
    /\ UNCHANGED <<cfgVars, listenVars, runVars, listenerVars>>
    /\ UNCHANGED <<playerVars, callVars, speakVars, histVars>>

\* finally: loop.remove_signal_handler(signal.SIGINT), which puts back
\* Python's default handler; a request not yet handled is lost.
MainFinally ==
    /\ pc = "finally"
    /\ pending' = FALSE
    /\ pc' = IF shutdown_requested THEN "summarize" ELSE "cleanup"
    /\ UNCHANGED <<stack, signals, request_turn, shutdown_requested,
                   summaries, cleanups>>
    /\ UNCHANGED <<cfgVars, listenVars, runVars, listenerVars>>
    /\ UNCHANGED <<playerVars, callVars, speakVars, histVars>>

\* "# --- Summarization on Graceful Shutdown ---": summarize_conversation
\* and save_summary; a failure is printed and the finally clause goes on.
MainSummarize ==
    /\ pc = "summarize"
    /\ summaries' = summaries + 1
    /\ \E saved \in {"summary_saved", "summary_failed"} :
          phases_run' = phases_run \cup {saved}
    /\ pc' = "cleanup"
    /\ UNCHANGED <<stack, turn, conversation_history, turn_result, slept>>
    /\ UNCHANGED <<signals, pending, request_turn, shutdown_requested,
                   cleanups>>
    /\ UNCHANGED <<cfgVars, listenVars, listenerVars>>
    /\ UNCHANGED <<playerVars, callVars, speakVars, histVars>>

\* "# --- Component Cleanup ---": component_manager.cleanup() returns
MainCleanup ==
    /\ pc = "cleanup"
    /\ cleanups' = cleanups + 1
    /\ pc' = "exited"
    /\ UNCHANGED <<stack, signals, pending, request_turn,
                   shutdown_requested, summaries>>
    /\ UNCHANGED <<cfgVars, listenVars, runVars, listenerVars>>
    /\ UNCHANGED <<playerVars, callVars, speakVars, histVars>>

\* SIGINT after the handler was removed: KeyboardInterrupt is raised in the
\* finally clause of main; it is no Exception, so no except clause there
\* catches it, and main is left at once.
KeyboardInterrupt ==
    /\ pc \in {"summarize", "cleanup"}
    /\ signals < MaxSignals
    /\ signals' = signals + 1
    /\ pc' = "exited"
    /\ UNCHANGED <<stack, pending, request_turn, shutdown_requested,
                   summaries, cleanups>>
    /\ UNCHANGED <<cfgVars, listenVars, runVars, listenerVars>>
    /\ UNCHANGED <<playerVars, callVars, speakVars, histVars>>

(***************************************************************************)
(* Initial states.                                                         *)
(***************************************************************************)
InitCommon ==
    /\ stack = <<>>
    /\ audio_queue = <<>>
    /\ is_playing = FALSE
    /\ should_stop_playback = FALSE
    /\ playback_thread = 0
    /\ wpc = [w \in WorkerIds |-> "none"]
    /\ witem = [w \in WorkerIds |-> 0]
    /\ sink = <<>>
    /\ sink_errors = {}
    /\ audio_data = 0
    /\ nitems = 0
    /\ force = FALSE
    /\ timeout = "None"
    /\ estimated_remaining = "unbound"
    /\ timed_out = FALSE
    /\ queue_empty_time = "None"
    /\ wait_result = "none"
    /\ ncalls = 0
    /\ interrupt_listener_thread = 0
    /\ should_stop_interrupt_listener = FALSE
    /\ interrupt_event_ref = 0
    /\ dpc = [d \in DetectorIds |-> "none"]
    /\ active_chunks = [d \in DetectorIds |-> 0]
    /\ ev = [e \in EventIds |-> FALSE]
    /\ heard = <<>>
    /\ fired_at = -1
    /\ phase = 0
    /\ interrupt_event = 0
    /\ full_response_text = <<>>
    /\ tts_buffer = <<>>
    /\ initial_words_spoken = FALSE
    /\ interrupted = FALSE
    /\ audio_ok = FALSE
    /\ final_status_code = "ERROR"
    /\ status_queue = <<>>
    /\ result = <<>>
    /\ consumed = <<>>
    /\ synthesized = <<>>
    /\ synth_failed = <<>>
    /\ enqueued = {}
    /\ play_after_set = FALSE
    /\ wait_expired = FALSE
    /\ queued_at_return = {}
    /\ late_write = FALSE
    /\ retry_count = 0
    /\ audio_file = "None"
    /\ transcribed_text = "None"
    /\ attempts = 0
    /\ last_attempt = "none"
    /\ turn = 0
    /\ conversation_history = << <<"system", 0>> >>
    /\ turn_result = <<>>
    /\ phases_run = {}
    /\ slept = FALSE
    /\ signals = 0
    /\ pending = FALSE
    /\ request_turn = 0
    /\ shutdown_requested = FALSE
    /\ summaries = 0
    /\ cleanups = 0

\* The AudioPlayer after construction, with its driver.
InitPlayer ==
    /\ InitCommon
    /\ scores = AnyFrames
    /\ pc = "driver"
    /\ vad_model = TRUE
    /\ tts_enabled = TRUE
    /\ host = "main"
    /\ audio_handler = TRUE
    /\ transcriber = TRUE
    /\ kind = "gen"
    /\ response_source = <<>>
    /\ source_fails = FALSE

NextPlayer ==
    \/ Driver
    \/ Player
    \/ Waiter
    \/ CleanupEnd
    \/ \E w \in WorkerIds : Worker(w)

SpecPlayer == InitPlayer /\ [][NextPlayer]_vars


\* The interaction engine after construction, about to speak a response
\* source of R; V tells whether the VAD model could be loaded.
InitSpeak(R, V) ==
    /\ InitCommon
    /\ scores = AnyFrames
    /\ pc = "ready"
    /\ vad_model \in V
    /\ tts_enabled = TRUE
    /\ host = "main"
    /\ audio_handler = TRUE
    /\ transcriber = TRUE
    /\ \E r \in R :
          /\ kind = r.kind
          /\ response_source = r.response_source
          /\ source_fails = r.source_fails

\* One Speak phase of AlpacaInteraction with the playback worker and the
\* capture worker running.
Init == InitSpeak(Sources(ShortStreams, {"gen", "str"}, BOOLEAN), BOOLEAN)

Next ==
    \/ Speak
    \/ Player
    \/ AudioHandlerStopDetector
    \/ \E w \in WorkerIds : Worker(w)
    \/ \E d \in DetectorIds : Detector(d)

Spec == Init /\ [][Next]_vars

\* Successive Speak phases with the capture workers, each over a generator
\* that yields one sentence.  The playback workers are not scheduled here:
\* they touch neither an Event nor a field of the detector, and the drain
\* wait of _speak ends by its interrupt test or its time limit.
SignalSources == Sources({<<".">>}, {"gen"}, {FALSE})

InitSignal == InitSpeak(SignalSources, BOOLEAN)

NextSignal ==
    \/ Respond(SignalSources)
    \/ SpeakStart
    \/ SpeakToken
    \/ SpeakCheck
    \/ SpeakFinal
    \/ SpeakWait
    \/ SpeakWaitCheck
    \/ SpeakReturn
    \/ SpeakInterrupted
    \/ Player
    \/ AudioHandlerStopDetector
    \/ \E d \in DetectorIds : Detector(d)

SpecSignal == InitSignal /\ [][NextSignal]_vars

\* One Speak phase of AlpacaInteraction over every token stream, with the
\* playback worker; the VAD model is not loaded, so that no interrupt occurs.
InitText ==
    InitSpeak(Sources(Streams, {"gen", "agen", "str"}, BOOLEAN), {FALSE})

NextText ==
    \/ Speak
    \/ Player
    \/ AudioHandlerStopDetector
    \/ \E w \in WorkerIds : Worker(w)

SpecText == InitText /\ [][NextText]_vars


\* One call of OutputHandler.speak with the capture worker running.
InitOut ==
    /\ InitCommon
    /\ scores = AnyFrames
    /\ pc = "o_ready"
    /\ vad_model \in BOOLEAN
    /\ tts_enabled = TRUE
    /\ host = "main"
    /\ audio_handler = TRUE
    /\ transcriber = TRUE
    /\ \E r \in Sources(Streams, {"gen", "agen", "str"}, BOOLEAN) :
          /\ kind = r.kind
          /\ response_source = r.response_source
          /\ source_fails = r.source_fails

NextOut ==
    \/ Out
    \/ \E d \in DetectorIds : Detector(d)

SpecOut == InitOut /\ [][NextOut]_vars


\* The token streams of the cut heuristic: the tokens
\* "Hi", " there", ", ", "how", " are", " you", "?" and a sentence followed
\* by more than approx_words_for_initial_chunk words, with their prefixes.
ExampleTokens ==
    << <<"H", "i">>, <<" ", "t", "h", "e", "r", "e">>, <<",", " ">>,
       <<"h", "o", "w">>, <<" ", "a", "r", "e">>, <<" ", "y", "o", "u">>,
       <<"?">> >>

LongTailTokens ==
    << <<".">>, <<"a", " ", "a", " ", "a", " ", "a", " ">>,
       <<"a", " ", "a", " ", "a", " ", "a", " ">>, <<"a">> >>

CutStreams ==
    {SubSeq(ExampleTokens, 1, n) : n \in 0..Len(ExampleTokens)}
      \cup {SubSeq(LongTailTokens, 1, n) : n \in 0..Len(LongTailTokens)}

\* One Speak phase of AlpacaInteraction over the streams of CutStreams,
\* with the playback worker and no interrupt.
InitCut ==
    InitSpeak(Sources(CutStreams, {"gen", "agen", "str"}, BOOLEAN), {FALSE})

SpecCut == InitCut /\ [][NextText]_vars


\* One call of _speak or of OutputHandler.speak with TTS disabled, over
\* every token stream.
InitDisabled ==
    /\ InitCommon
    /\ scores = AnyFrames
    /\ pc \in {"ready", "o_ready"}
    /\ vad_model \in BOOLEAN
    /\ tts_enabled = FALSE
    /\ host = "main"
    /\ audio_handler = TRUE
    /\ transcriber = TRUE
    /\ \E r \in Sources(Streams, {"gen", "agen", "str"}, BOOLEAN) :
          /\ kind = r.kind
          /\ response_source = r.response_source
          /\ source_fails = r.source_fails

NextDisabled ==
    \/ SpeakDisabled
    \/ OutDisabled

SpecDisabled == InitDisabled /\ [][NextDisabled]_vars


\* The capture streams of at most MaxFrames frames.
FrameStreams == UNION {[1..n -> FrameKinds] : n \in 0..MaxFrames}

\* The detector after construction, before a caller that starts the
\* listener; the frames the capture stream will deliver are given.
InitDetector ==
    /\ InitCommon
    /\ scores \in FrameStreams
    /\ pc = "det_driver"
    /\ vad_model \in BOOLEAN
    /\ tts_enabled = TRUE
    /\ host = "main"
    /\ audio_handler = TRUE
    /\ transcriber = TRUE
    /\ kind = "gen"
    /\ response_source = <<>>
    /\ source_fails = FALSE

\* No caller stops the listener here, so the worker never closes.
NextDetector ==
    \/ DriveStartListener
    \/ \E d \in DetectorIds : DetectorOpen(d)
    \/ \E d \in DetectorIds : DetectorFrame(d)
    \/ \E d \in DetectorIds : DetectorFire(d)
    \/ \E d \in DetectorIds : DetectorSet(d)

SpecDetector == InitDetector /\ [][NextDetector]_vars

\* The detector with a caller that starts and stops the listener in any
\* order, the microphone delivering any frames.
InitListener ==
    /\ InitCommon
    /\ scores = AnyFrames
    /\ pc = "det_driver"
    /\ vad_model = TRUE
    /\ tts_enabled = TRUE
    /\ host = "main"
    /\ audio_handler = TRUE
    /\ transcriber = TRUE
    /\ kind = "gen"
    /\ response_source = <<>>
    /\ source_fails = FALSE

NextListener ==
    \/ DriveStartListener
    \/ DriveStopListener
    \/ \E d \in DetectorIds : Detector(d)

\* Every capture worker thread keeps running: the scheduler is fair to it.
SpecListener ==
    /\ InitListener
    /\ [][NextListener]_vars
    /\ \A d \in DetectorIds : WF_vars(Detector(d))


\* The AudioPlayer with a caller that only calls play_audio: nothing stops
\* the playback worker, which therefore never leaves its loop.
NextPlay ==
    \/ DrivePlayAudio
    \/ PlayAudioStart
    \/ PlayAudioPut
    \/ PlayAudioFlag
    \/ \E w \in WorkerIds : WorkerGet(w)
    \/ \E w \in WorkerIds : WorkerSetPlaying(w)
    \/ \E w \in WorkerIds : WorkerCheckStop(w)
    \/ \E w \in WorkerIds : WorkerWrite(w)
    \/ \E w \in WorkerIds : WorkerEmpty(w)
    \/ \E w \in WorkerIds : WorkerClearPlaying(w)

SpecPlay == InitPlayer /\ [][NextPlay]_vars


\* The AudioPlayer with a caller that calls play_audio and stop_playback in
\* any order and may stop calling at any time.  Every call that was begun
\* runs to its end and every playback worker thread keeps running.
NextDrain ==
    \/ DrivePlayAudio
    \/ DriveStopPlayback
    \/ Player
    \/ \E w \in WorkerIds : Worker(w)

SpecDrain ==
    /\ InitPlayer
    /\ [][NextDrain]_vars
    /\ WF_vars(Player)
    /\ \A w \in WorkerIds : WF_vars(Worker(w))


\* The turn logic in its loop: main or the voice loop, with every
\* combination of the audio handler and the transcriber present or missing.
InitLoop ==
    /\ InitCommon
    /\ scores = AnyFrames
    /\ pc = "loop_top"
    /\ vad_model = TRUE
    /\ tts_enabled = TRUE
    /\ host \in {"main", "voice"}
    /\ audio_handler \in BOOLEAN
    /\ transcriber \in BOOLEAN
    /\ kind = "gen"
    /\ response_source = <<>>
    /\ source_fails = FALSE

NextLoop ==
    \/ LoopTop
    \/ RunStart
    \/ ListenStart
    \/ ListenAttempt
    \/ Transcribe
    \/ RunListened
    \/ RunProcess
    \/ RunSpeak
    \/ RunSpoken
    \/ RunExcept
    \/ RunError
    \/ LoopResult
    \/ RecoverySleep
    \/ ShutdownRequest
    \/ HandleShutdownSignal
    \/ MainFinally
    \/ MainSummarize
    \/ MainCleanup
    \/ KeyboardInterrupt
    \/ StopPlayback
    \/ StopPlaybackClear
    \/ StopPlaybackFlag
    \/ AudioHandlerStopDetector

SpecLoop == InitLoop /\ [][NextLoop]_vars


\* Successive Speak phases of AlpacaInteraction, each over a new response
\* source: a generator or a string over a short stream of words, spaces
\* and sentence ends.  No interrupt occurs (the VAD model is not loaded)
\* and the playback workers are not scheduled: they touch no local of
\* _speak.
TurnStreams ==
    UNION {[1..n -> {<<"a">>, <<" ", "a">>, <<".">>, <<"\n">>}] :
              n \in 0..MaxShort}

TurnSources == Sources(TurnStreams, {"gen", "str"}, BOOLEAN)

InitTurns == InitSpeak(TurnSources, {FALSE})

NextTurns ==
    \/ Respond(TurnSources)
    \/ Speak
    \/ Player
    \/ AudioHandlerStopDetector

SpecTurns == InitTurns /\ [][NextTurns]_vars


\* The detector with a caller that starts and stops the listener in any
\* order, and a capture device whose open and read calls may fail.
NextCapture ==
    \/ DriveStartListener
    \/ DriveStopListener
    \/ \E d \in DetectorIds : Detector(d)
    \/ \E d \in DetectorIds : DetectorReadError(d)
    \/ \E d \in DetectorIds : DetectorOpenFails(d)

SpecCapture == InitListener /\ [][NextCapture]_vars


\* A Speak phase of main with the playback workers, and the beginning of the
\* next Interaction up to the opening of its listening session, while the
\* worker of the Speak phase may still hold, or be writing, an item.  The
\* VAD model is not loaded, so no capture worker runs.
HandoverSources == Sources(ShortStreams, {"gen", "str"}, BOOLEAN)

\* _speak has returned its status and text to run_single_interaction.
RunSpeakReturns ==
    /\ pc = "idle"
    /\ result # <<>>
    /\ pc' = "spoken"
    /\ UNCHANGED stack
    /\ UNCHANGED <<playerVars, callVars, detVars, speakVars, histVars>>

InitHandover == InitSpeak(HandoverSources, {FALSE})

NextHandover ==
    \/ Speak
    \/ RunSpeakReturns
    \/ RunSpoken
    \/ LoopResult
    \/ RecoverySleep
    \/ LoopTop
    \/ RunStart
    \/ ListenStart
    \/ ListenAfterStop
    \/ Player
    \/ WaitStart
    \/ AudioHandlerStopDetector
    \/ \E w \in WorkerIds : Worker(w)

SpecHandover == InitHandover /\ [][NextHandover]_vars


\* A Speak phase of either speak function, with the capture worker running,
\* that may be cancelled while it is suspended in an await.  The playback
\* workers are not scheduled: they touch no field of the detector.
\* _speak is cancelled in "await asyncio.sleep(0.1)" of its drain wait:
\* CancelledError is not an Exception, so only the finally clause runs.
SpeakCancelled ==
    /\ pc = "s_wait_check"
    /\ ~ev[interrupt_event]
    /\ result' = <<"CANCELLED", full_response_text>>
    /\ queued_at_return' = Range(audio_queue)
    /\ StopInterruptListener
    /\ pc' = "idle"
    /\ UNCHANGED <<stack, phase, interrupt_event, kind, response_source,
                   source_fails, full_response_text, tts_buffer,
                   initial_words_spoken, interrupted, audio_ok,
                   final_status_code, status_queue>>
    /\ UNCHANGED <<cfgVars, turnVars, micVars, dpc, active_chunks, ev>>
    /\ UNCHANGED <<consumed, synthesized, synth_failed, enqueued,
                   play_after_set, wait_expired, late_write>>
    /\ UNCHANGED <<playerVars, callVars>>

\* OutputHandler.speak is cancelled in an await of its token loop, of its
\* final flush or of a put_status: "except asyncio.CancelledError: raise",
\* then the finally clause.
OutCancelled ==
    /\ pc \in {"o_loop", "o_final", "o_return"}
    /\ result' = <<"CANCELLED", full_response_text>>
    /\ StopInterruptListener
    /\ pc' = "idle"
    /\ UNCHANGED <<stack, phase, interrupt_event, kind, response_source,
                   source_fails, full_response_text, tts_buffer,
                   initial_words_spoken, interrupted, audio_ok,
                   final_status_code, status_queue>>
    /\ UNCHANGED <<cfgVars, turnVars, micVars, dpc, active_chunks, ev>>
    /\ UNCHANGED <<playerVars, callVars, histVars>>

InitCancel ==
    /\ InitCommon
    /\ scores = AnyFrames
    /\ pc \in {"ready", "o_ready"}
    /\ vad_model = TRUE
    /\ tts_enabled = TRUE
    /\ host = "voice"
    /\ audio_handler = TRUE
    /\ transcriber = TRUE
    /\ \E r \in Sources(ShortStreams, {"gen", "str"}, BOOLEAN) :
          /\ kind = r.kind
          /\ response_source = r.response_source
          /\ source_fails = r.source_fails

NextCancel ==
    \/ Speak
    \/ SpeakCancelled
    \/ Out
    \/ OutCancelled
    \/ Player
    \/ AudioHandlerStopDetector
    \/ \E d \in DetectorIds : Detector(d)

SpecCancel == InitCancel /\ [][NextCancel]_vars


(***************************************************************************)
(* Properties.                                                             *)
(***************************************************************************)
\* The playback worker dropped the item on a failure of the sink.
Dropped(i) == \E k \in {"open", "write"} : <<i, k>> \in sink_errors

\* speak has returned with the given status.
Returned(status) == pc = "idle" /\ result # <<>> /\ result[1] = status

\* C1: no Event is ever cleared, so the InterruptSignal of a phase goes from
\* unset to set at most once, and every Speak phase begins with an Event of
\* its own that is unset.
C1_SignalSetOnce ==
    [][/\ \A e \in EventIds : ev[e] => ev'[e]
       /\ phase' # phase => /\ interrupt_event' # interrupt_event
                            /\ ~ev'[interrupt_event']]_vars

\* C1, witness: the signal of the first phase was set and, in the second
\* phase, the capture worker has set the second phase's signal.
C1_Witness ==
    /\ phase = 2
    /\ interrupt_event = 2
    /\ ev[1]
    /\ ev[2]

\* C2: play_audio is never called once the phase's InterruptSignal is set.
C2_NoPlayAfterSignal == ~play_after_set

\* C3: when _speak has returned INTERRUPTED (here: because it saw the signal
\* set, not because its 60 s limit expired) the playback queue is empty and
\* no item that was still queued at the return is written to the sink.
C3_InterruptedStopsPlayback ==
    (Returned("INTERRUPTED") /\ ~wait_expired) =>
        audio_queue = <<>> /\ ~late_write

\* C4: at most one playback worker is writing at any instant, and the items
\* reach the sink in the order in which they were enqueued (item ids are
\* given in enqueue order).
C4_OneWriterInOrder ==
    /\ Cardinality({w \in WorkerIds : wpc[w] = "writing"}) <= 1
    /\ \A i, j \in 1..Len(sink) : i < j => sink[i] < sink[j]

\* C5: wait_for_playback_complete, with the default or an explicit timeout,
\* returns a boolean and never ends in an exception.
C5_WaitReturnsBoolean == wait_result \in {"none", "True", "False"}

\* C6: when _speak has returned COMPLETED, every item enqueued in the phase
\* has been written to the sink (or dropped on a sink error), the queue is
\* empty and no worker holds an item.
C6_CompletedAfterDrain ==
    Returned("COMPLETED") =>
        /\ \A i \in enqueued : i \in Range(sink) \/ Dropped(i)
        /\ audio_queue = <<>>
        /\ \A w \in WorkerIds : witem[w] = 0

\* C7: speak returns COMPLETED when the source was consumed to its end, the
\* signal never fired and nothing failed; INTERRUPTED when it saw the signal
\* set; ERROR when the source raised; and, with COMPLETED and INTERRUPTED,
\* full_text is the concatenation of the tokens received.
C7_SpeakResult ==
    (pc = "idle" /\ result # <<>>) =>
        /\ (response_source = <<>> /\ ~source_fails /\ ~ev[interrupt_event]
            /\ synth_failed = <<>>) => result[1] = "COMPLETED"
        /\ (interrupted /\ ev[interrupt_event]) => result[1] = "INTERRUPTED"
        /\ (response_source = <<>> /\ source_fails) => result[1] = "ERROR"
        /\ result[1] # "ERROR" => result[2] = full_response_text

\* C8: after synthesize has raised for a chunk, and with no interrupt
\* signal, the remaining tokens are still consumed and the turn does not end
\* INTERRUPTED.
C8_SynthFailureDoesNotAbort ==
    (pc = "idle" /\ result # <<>> /\ synth_failed # <<>>
     /\ ~ev[interrupt_event]) =>
        /\ response_source = <<>>
        /\ result[1] # "INTERRUPTED"

\* C9: when the source is exhausted without interrupt or failure, non-blank
\* text left in the accumulation buffer is synthesized as the final chunk.
C9_FinalFlush ==
    (pc = "idle" /\ result # <<>> /\ result[1] # "INTERRUPTED" /\ ~source_fails
     /\ Strip(tts_buffer) # <<>>) =>
        /\ synthesized # <<>>
        /\ synthesized[Len(synthesized)] = Strip(tts_buffer)

\* The stream was consumed to its end with no interrupt signal and no
\* synthesis failure, and it contains a delimiter.
DelimitedStreamSpoken ==
    /\ pc = "idle"
    /\ result # <<>>
    /\ response_source = <<>>
    /\ ~source_fails
    /\ ~ev[interrupt_event]
    /\ synth_failed = <<>>
    /\ \E i \in 1..Len(Concat(consumed)) : Concat(consumed)[i] \in sentence_ends

CutByRule(buf, emitted, target) ==
    /\ Strip(buf) # <<>>
    /\ \/ EndsWithDelimiter(buf)
       \/ ~emitted /\ CountSpaces(buf) + 1 >= target

\* The buffers cut by the rule from a token stream, in order, followed by
\* the text that is left when the stream ends.
RECURSIVE CutsByRule(_, _, _, _)
CutsByRule(toks, buf, emitted, target) ==
    IF toks = <<>>
    THEN <<buf>>
    ELSE LET b == buf \o Head(toks)
         IN IF CutByRule(b, emitted, target)
            THEN <<b>> \o CutsByRule(Tail(toks), <<>>, TRUE, target)
            ELSE CutsByRule(Tail(toks), b, emitted, target)

\* The texts synthesized for a sequence of cut buffers: each one stripped,
\* the blank ones left out.
StrippedChunks(cuts) ==
    LET stripped == [i \in 1..Len(cuts) |-> Strip(cuts[i])]
    IN SelectSeq(stripped, LAMBDA c : c # <<>>)

\* A generator was consumed to its end and speak returned COMPLETED.
GeneratorSpoken ==
    /\ Returned("COMPLETED")
    /\ kind \in {"gen", "agen"}

C12_DisabledConsumesSource ==
    ~tts_enabled =>
        /\ synthesized = <<>>
        /\ audio_queue = <<>>
        /\ (pc = "idle" /\ result # <<>>) =>
              /\ result[1] = "DISABLED"
              /\ response_source = <<>>

\* C13: without interrupt and without a failure of the source, _speak
\* returns the same status and the text of the source whatever the kind of
\* the source: COMPLETED on the enabled path, DISABLED on the disabled one
\* (status_queue is empty in the calls of _speak, which has none).
C13_SourceKindsUniform ==
    (pc = "idle" /\ result # <<>> /\ ~source_fails /\ ~interrupted
     /\ status_queue = <<>>) =>
        /\ result[1] = IF tts_enabled THEN "COMPLETED" ELSE "DISABLED"
        /\ result[2] = Concat(consumed) \o Concat(response_source)

\* The index (0-based) of the first frame at which the activation count,
\* started at n and moved +1 per active frame and -1 floored at 0 per
\* inactive frame, reaches the threshold; -1 when no frame does.
RECURSIVE FirstReach(_, _, _)
FirstReach(frames, n, index) ==
    IF frames = <<>>
    THEN -1
    ELSE LET active == Head(frames)[1] > 300 /\ Head(frames)[2] >= 5
             m == IF active THEN n + 1 ELSE IF n > 0 THEN n - 1 ELSE 0
         IN IF m >= 3 THEN index
                      ELSE FirstReach(Tail(frames), m, index + 1)

\* The frame scores 0.9, 0.9, 0.1, 0.9, 0.9 with the energy above the
\* threshold.
ExampleFrames == <<<<400, 9>>, <<400, 9>>, <<400, 1>>, <<400, 9>>, <<400, 9>>>>

\* The capture worker is between two frames: it has finished the frames
\* it has read.
BetweenFrames == \A d \in DetectorIds : dpc[d] \in {"none", "loop"}

\* C14: the signal is set at the first frame at which the activation count
\* reaches the threshold and at no other; for the frame scores 0.9, 0.9,
\* 0.1, 0.9, 0.9 that is frame 4.
C14_FiresAtThreshold ==
    /\ (interrupt_event_ref # 0 /\ ev[interrupt_event_ref]) =>
          fired_at = FirstReach(heard, 0, 0)
    /\ (interrupt_event_ref # 0 /\ ~ev[interrupt_event_ref]
        /\ BetweenFrames) => FirstReach(heard, 0, 0) = -1
    /\ (interrupt_event_ref # 0 /\ BetweenFrames /\ heard = ExampleFrames) =>
          ev[interrupt_event_ref] /\ fired_at = 4

\* C14, witness: the worker has read the five frames of the example and
\* has set the signal.
C14_Witness ==
    /\ heard = ExampleFrames
    /\ interrupt_event_ref # 0
    /\ ev[interrupt_event_ref]
    /\ BetweenFrames

\* C15: when the VAD model is not loaded, no capture worker is started, no
\* capture stream is opened, no signal is set, and _speak returns the
\* status it has without an interrupt signal: ERROR when the source raised,
\* INTERRUPTED only when its 60 s drain limit expired, else COMPLETED.
C15_NoVadNoListener ==
    ~vad_model =>
        /\ interrupt_listener_thread = 0
        /\ interrupt_event_ref = 0
        /\ \A d \in DetectorIds : dpc[d] = "none"
        /\ \A e \in EventIds : ~ev[e]
        /\ (pc = "idle" /\ result # <<>>) =>
              result[1] = IF source_fails THEN "ERROR"
                          ELSE IF wait_expired THEN "INTERRUPTED"
                          ELSE "COMPLETED"

\* C15, witness: without the VAD model _speak has started its phase, has
\* synthesized a chunk and has returned COMPLETED.
C15_Witness ==
    /\ ~vad_model
    /\ phase = 1
    /\ synthesized # <<>>
    /\ Returned("COMPLETED")

\* C16: stop_interrupt_listener is idempotent (a call made when no
\* listener is registered changes nothing), and a capture worker that is
\* in its loop when the stop flag is set eventually closes its stream and
\* ends, whatever start_interrupt_listener calls follow.
C16_StopEndsWorker ==
    /\ [][(interrupt_listener_thread = 0 /\ interrupt_event_ref = 0
           /\ ncalls' # ncalls) => UNCHANGED detVars]_vars
    /\ \A d \in DetectorIds :
          (DetectorAlive(d) /\ should_stop_interrupt_listener)
             ~> (dpc[d] = "dead")

\* C17: whenever a call of stop_playback returns, the playback queue is
\* empty and is_playing is false, so that no item queued at the call can
\* still be written, and a second call finds and leaves the same state.
C17_StopDiscardsQueue ==
    [][(pc \in {"stop_playback", "stop_flag"}
        /\ pc' \notin {"stop_playback", "stop_clear", "stop_flag"}) =>
          (audio_queue' = <<>> /\ ~is_playing')]_vars

\* C18: outside the body of play_audio, is_playing is true whenever a
\* playback worker is writing an item or an item remains in the queue.
C18_PlayingWhileWork ==
    (pc \notin {"play_audio", "play_put", "play_flag"}
     /\ \/ audio_queue # <<>>
        \/ \E w \in WorkerIds : wpc[w] = "writing") => is_playing

\* C19: a write error does not end the playback worker, the items reach
\* the sink in the order in which they were enqueued, and the only items
\* skipped before a written one are those dropped on a sink error.
C19_WriteErrorDropsOneItem ==
    /\ \A w \in WorkerIds : wpc[w] \notin {"exit", "dead"}
    /\ \A i, j \in 1..Len(sink) : i < j => sink[i] < sink[j]
    /\ \A i \in 1..nitems :
          (\E j \in Range(sink) : i < j) => (i \in Range(sink) \/ Dropped(i))

\* C19, witness: the write of the first item raised and the worker has
\* written the second item.
C19_Witness ==
    /\ <<1, "write">> \in sink_errors
    /\ sink = <<2>>

\* C20: when the sink could not be opened for an item of the phase before
\* speak returns, speak returns ERROR.
C20_OpenFailureIsError ==
    [][(pc # "idle" /\ pc' = "idle"
        /\ \E i \in enqueued : <<i, "open">> \in sink_errors) =>
          result'[1] = "ERROR"]_vars

\* C21: every PlaybackItem that play_audio has put on the queue eventually
\* leaves it, taken by a playback worker or discarded by stop_playback, and
\* the queue never holds more than its capacity of 100 items.
C21_QueuedItemLeavesQueue ==
    /\ [](Len(audio_queue) <= 100)
    /\ \A i \in 1..MaxCalls :
          (i \in Range(audio_queue)) ~> (i \notin Range(audio_queue))

\* C22: when the Interaction returns after a Listening that ended with
\* TIMEOUT_ERROR, low_energy, ERROR or an empty transcription, it has made
\* no LLM request and no speak call, it returns the corresponding status
\* with the canned apology, and the apology is the last entry of the
\* conversation history.
C22_ListenFailureApology ==
    (pc = "loop_result" /\ "listen" \in phases_run
     /\ transcribed_text \in ListenFailures) =>
       /\ phases_run \cap {"process", "speak"} = {}
       /\ turn_result = <<ListenStatus(transcribed_text), ApologyText>>
       /\ conversation_history[Len(conversation_history)]
             = <<"assistant", turn>>

\* C23: when the loop is about to begin its next pass after an Interaction
\* whose Processing phase raised, the Interaction has returned ERROR, the
\* loop has taken its recovery sleep, no entry occurs twice in the
\* conversation history, and every user entry is followed by the assistant
\* entry of its turn.
C23_HistoryAfterProcessingError ==
    (pc = "loop_top" /\ "process_raised" \in phases_run) =>
       /\ turn_result[1] = "ERROR"
       /\ slept
       /\ \A i, j \in 1..Len(conversation_history) :
             i # j => conversation_history[i] # conversation_history[j]
       /\ \A i \in 1..Len(conversation_history) :
             conversation_history[i][1] = "user" =>
                /\ i < Len(conversation_history)
                /\ conversation_history[i + 1]
                      = <<"assistant", conversation_history[i][2]>>

\* C24: the loop is in its recovery sleep only after an Interaction that
\* returned ERROR, and whenever it starts a further Interaction it has
\* taken the recovery sleep if and only if the previous one returned ERROR.
C24_SleepOnlyAfterError ==
    /\ [](pc = "recovery_sleep" => turn_result[1] = "ERROR")
    /\ [][(turn > 0 /\ turn' = turn + 1) =>
             (slept <=> turn_result[1] = "ERROR")]_vars

\* C24, witness: the first Interaction returned ERROR, the loop has slept
\* and is about to start the second one.
C24_Witness ==
    /\ pc = "loop_top"
    /\ turn = 1
    /\ turn_result # <<>>
    /\ turn_result[1] = "ERROR"
    /\ slept
    /\ ~shutdown_requested

C26_ShutdownCancelsWork ==
    [][request_turn > 0 =>
          /\ turn' = turn
          /\ attempts' <= attempts
          /\ (phases_run' \cap {"listen", "process", "speak"})
                \subseteq phases_run]_vars

\* C27: when main has exited after shutdown was requested, it has made
\* exactly one summarization pass and completed exactly one component
\* cleanup, whether or not the summary could be generated and saved.
C27_CleanupExactlyOnce ==
    (host = "main" /\ pc = "exited" /\ shutdown_requested) =>
       (summaries = 1 /\ cleanups = 1)

\* C28: every call of run_single_interaction that is not cancelled ends by
\* returning one status, and only one, which is COMPLETED, INTERRUPTED,
\* ERROR, DISABLED, TIMEOUT_ERROR (the TIMEOUT of the enumeration) or
\* low_energy (its LOW_ENERGY); the loop never receives anything else
\* from the call.
C28_OneStatusPerTurn ==
    /\ [](turn_result # <<>> =>
            turn_result[1] \in {"COMPLETED", "INTERRUPTED", "ERROR",
                                "DISABLED", "TIMEOUT_ERROR", "low_energy"})
    /\ [](pc \in {"loop_result", "recovery_sleep"} => turn_result # <<>>)
    /\ [][turn_result' # turn_result =>
             \/ turn_result' = <<>> /\ turn' = turn + 1
             \/ turn_result = <<>> /\ pc' = "loop_result"]_vars

\* C28, witness: an Interaction whose Processing phase raised has returned
\* ERROR.
C28_Witness ==
    /\ pc = "loop_result"
    /\ "process_raised" \in phases_run
    /\ turn_result[1] = "ERROR"

\* C29: when the transcriber or the audio handler is missing, an
\* Interaction that has returned has returned ERROR, has opened no
\* listening session (no capture attempt), has made no LLM request and no
\* speak call, and has left the conversation history as it was.
C29_MissingComponentRefuses ==
    (pc = "loop_result" /\ (~audio_handler \/ ~transcriber)) =>
       /\ turn_result[1] = "ERROR"
       /\ phases_run = {}
       /\ attempts = 0
       /\ conversation_history = << <<"system", 0>> >>

\* C29, witness: the audio handler is present, the transcriber is missing,
\* and the second Interaction has returned.
C29_Witness ==
    /\ pc = "loop_result"
    /\ audio_handler
    /\ ~transcriber
    /\ turn = 2

\* C30: listen_for_speech ends after at most max_retries + 1 capture
\* attempts, whatever their outcomes: every attempt returns or uses up one
\* retry, and the value returned follows from the last attempt alone,
\* TIMEOUT_ERROR when it timed out, low_energy when it was too quiet, None
\* when it raised, and the file when audio was captured.
C30_ListenRetriesBounded ==
    /\ attempts <= max_retries + 1
    /\ pc = "listen_attempt" =>
          (attempts = retry_count /\ retry_count <= max_retries)
    /\ (pc = "transcribe" /\ "listen" \in phases_run) =>
          audio_file = CASE last_attempt = "audio" -> "file"
                         [] last_attempt = "timeout" -> "TIMEOUT_ERROR"
                         [] last_attempt = "low_energy" -> "low_energy"
                         [] OTHER -> "None"

\* C30, witness: the call has used all its retries and returns low_energy
\* after a last attempt that was too quiet.
C30_Witness ==
    /\ pc = "transcribe"
    /\ attempts = max_retries + 1
    /\ last_attempt = "low_energy"
    /\ audio_file = "low_energy"

\* The texts of the audio_chunk events of the status queue, in order.
ChunkEvents(q) ==
    LET chunks == SelectSeq(q, LAMBDA e : e[1] = "audio_chunk")
    IN [i \in 1..Len(chunks) |-> chunks[i][2]]

\* a can be obtained from b by leaving elements out.
RECURSIVE InOrderOf(_, _)
InOrderOf(a, b) ==
    IF a = <<>> THEN TRUE
    ELSE IF b = <<>> THEN FALSE
    ELSE IF Head(a) = Head(b) THEN InOrderOf(Tail(a), Tail(b))
    ELSE InOrderOf(a, Tail(b))

\* C31: the events OutputHandler.speak has put on its status queue begin
\* with the Speaking status, go on with audio_chunk events in the order in
\* which the chunks were synthesized, and hold a terminal status (Idle,
\* Interrupted, Error or Disabled) only as their last event, which is there
\* once speak has returned; no audio_chunk follows the terminal status.
C31_EventsInOrder ==
    LET q == status_queue
        terminal(e) ==
            /\ e[1] = "status"
            /\ e[2] \in {"Idle", "Interrupted", "Error", "Disabled"}
    IN /\ q # <<>> => q[1] = <<"status", "Speaking">>
       /\ \A i \in 2..Len(q) :
             \/ q[i][1] = "audio_chunk"
             \/ i = Len(q) /\ terminal(q[i])
       /\ InOrderOf(ChunkEvents(q), synthesized)
       /\ (pc = "idle" /\ q # <<>>) => terminal(q[Len(q)])

\* C32: at most one capture worker thread of the InterruptDetector is
\* alive in any state, whatever start_interrupt_listener and
\* stop_interrupt_listener calls were made and however the worker threads
\* were scheduled, so that an InterruptSignal has one writer.
C32_OneCaptureWorker ==
    Cardinality({d \in DetectorIds : DetectorAlive(d)}) <= 1

\* C33: the activation count of every capture worker stays within
\* 0..vad_activation_chunks; a frame raises it by 1 when it is active and
\* lowers it by 1, but not below 0, when it is not; and a worker whose count
\* has reached vad_activation_chunks goes on with the next frame at
\* vad_activation_chunks - 1, not at 0.
C33_ActivationCountInRange ==
    /\ [](\A d \in DetectorIds :
             active_chunks[d] \in 0..vad_activation_chunks)
    /\ [][\A d \in DetectorIds :
            /\ (dpc[d] = "loop" /\ active_chunks'[d] # active_chunks[d]) =>
                  \/ active_chunks'[d] = active_chunks[d] + 1
                  \/ active_chunks[d] > 0
                     /\ active_chunks'[d] = active_chunks[d] - 1
            /\ (dpc[d] \in {"fire", "set"} /\ dpc'[d] = "loop") =>
                  active_chunks'[d] = vad_activation_chunks - 1]_vars

\* The position of speak: that of the caller's thread, or the one it
\* returns to from the AudioPlayer calls in progress.
SpeakAt == IF stack = <<>> THEN pc ELSE stack[Len(stack)]

\* C34: up to the final flush the accumulation buffer is what is left of
\* the text received in this turn after the prefix that was cut into chunks
\* (the chunks, once synthesized, hold the prefix without its outer
\* whitespace); a cut empties the buffer, a token that causes no cut is
\* appended to it, no other step of speak changes it, and every turn
\* starts with an empty buffer.
C34_BufferIsUncutText ==
    /\ [](SpeakAt \in {"s_loop", "s_check", "s_string", "s_string_check",
                       "s_final"} =>
            LET n == Len(full_response_text) - Len(tts_buffer)
            IN /\ n >= 0
               /\ tts_buffer = SubSeq(full_response_text, n + 1,
                                      Len(full_response_text))
               /\ RemoveWhitespace(SubSeq(full_response_text, 1, n))
                    = RemoveWhitespace(Concat(synthesized)))
    /\ [][/\ (pc = "s_loop" /\ Len(synthesized') > Len(synthesized)) =>
                tts_buffer' = <<>>
          /\ (pc = "s_loop" /\ synthesized' = synthesized
              /\ full_response_text' # full_response_text) =>
                tts_buffer' = tts_buffer \o Head(response_source)
          /\ (pc = "s_loop" /\ full_response_text' = full_response_text) =>
                tts_buffer' = tts_buffer
          /\ pc \notin {"s_loop", "ready"} => tts_buffer' = tts_buffer
          /\ phase' # phase => tts_buffer' = <<>>]_vars

\* C34, witness: in a second turn a chunk was cut and a later token is held
\* in the buffer.
C34_Witness ==
    /\ phase = 2
    /\ pc = "s_loop"
    /\ synthesized # <<>>
    /\ tts_buffer # <<>>
    /\ Len(tts_buffer) < Len(full_response_text)

\* C35: in a turn whose transcription is valid, the user entry is in the
\* history when the token source is requested from the LLM; the assistant
\* entry is in the history only once speak has returned, and only for a
\* text that is not empty; and the Interaction returns the status and the
\* text that speak returned.
C35_TurnOrder ==
    /\ (pc = "process" \/ "process" \in phases_run) =>
          <<"user", turn>> \in Range(conversation_history)
    /\ <<"assistant", turn>> \in Range(conversation_history) =>
          /\ "speak" \in phases_run
          /\ pc \notin {"speak", "spoken"}
          /\ result[2] # <<>>
    /\ (pc = "loop_result" /\ "speak" \in phases_run) =>
          /\ turn_result = result
          /\ result[2] # <<>> =>
                <<"assistant", turn>> \in Range(conversation_history)

\* C35, witness: a turn was interrupted while speaking; its user entry and
\* then its assistant entry follow the system prompt, and the Interaction
\* has returned INTERRUPTED.
C35_Witness ==
    /\ pc = "loop_result"
    /\ turn = 1
    /\ turn_result = <<"INTERRUPTED", <<"a">>>>
    /\ conversation_history
         = << <<"system", 0>>, <<"user", 1>>, <<"assistant", 1>> >>

\* The entries of the history that the given Interaction appended.
EntriesOf(t) == SelectSeq(conversation_history, LAMBDA e : e[2] = t)

\* C36: the history only grows at its end: a step leaves it as it is or
\* appends one entry, and only the Interaction appends (after Listening and
\* after speak has returned), never a step of speak, of the detector or of
\* the playback engine; the system prompt is the first entry; and every
\* Interaction has appended nothing, its user entry, or its user entry and
\* then its assistant entry.
C36_HistoryAppendOnly ==
    /\ [](/\ conversation_history[1] = <<"system", 0>>
          /\ EntriesOf(0) = << <<"system", 0>> >>
          /\ \A t \in 1..MaxTurns :
                EntriesOf(t) \in { <<>>, << <<"user", t>> >>,
                                   << <<"user", t>>, <<"assistant", t>> >> })
    /\ [][\/ conversation_history' = conversation_history
          \/ /\ pc \in {"listened", "spoken"}
             /\ Len(conversation_history') = Len(conversation_history) + 1
             /\ SubSeq(conversation_history', 1, Len(conversation_history))
                  = conversation_history
             /\ conversation_history'[Len(conversation_history')][2] = turn
         ]_vars

\* C36, witness: the second Interaction has appended its user entry after
\* the two entries of the first.
C36_Witness ==
    /\ turn = 2
    /\ conversation_history
         = << <<"system", 0>>, <<"user", 1>>, <<"assistant", 1>>,
              <<"user", 2>> >>

\* C37: a stream.read that raises leaves the activation counts, the
\* signals and the stop flag as they are, and its worker goes on with the
\* loop; a pyaudio.open that raises ends its worker, sets no signal, and
\* stops no listener but its own: the stop flag of a listener started for
\* a later phase stays clear; and a start_interrupt_listener that finds no
\* listener, as in a later phase, starts a new worker on the new phase's
\* signal with the stop flag cleared.
C37_CaptureErrors ==
    [][/\ heard' = Append(heard, ReadError) =>
             /\ active_chunks' = active_chunks
             /\ ev' = ev
             /\ should_stop_interrupt_listener'
                  = should_stop_interrupt_listener
             /\ dpc' = dpc
       /\ heard' = Append(heard, OpenFailed) =>
             /\ ev' = ev
             /\ \E d \in DetectorIds :
                   /\ dpc[d] = "open"
                   /\ dpc' = [dpc EXCEPT ![d] = "dead"]
                   /\ interrupt_listener_thread \notin {0, d} =>
                         should_stop_interrupt_listener'
                           = should_stop_interrupt_listener
       /\ (phase' # phase /\ interrupt_listener_thread = 0) =>
             /\ interrupt_listener_thread' \in DetectorIds
             /\ ~DetectorAlive(interrupt_listener_thread')
             /\ dpc'[interrupt_listener_thread'] = "open"
             /\ interrupt_event_ref' = interrupt_event'
             /\ ~should_stop_interrupt_listener'
      ]_vars

\* C38: when speak has returned INTERRUPTED, the InterruptSignal of its
\* phase is set.
C38_InterruptedOnlyBySignal ==
    Returned("INTERRUPTED") => ev[interrupt_event]

\* C39: at the step by which run_single_interaction opens its listening
\* session (the call of listen_for_speech reaches its retry loop) the
\* playback queue is empty and no playback worker is writing to the sink.
C39_ListenAfterPlayback ==
    [][(pc # "listen_attempt" /\ pc' = "listen_attempt") =>
          /\ audio_queue = <<>>
          /\ \A w \in WorkerIds : wpc[w] # "writing"]_vars

\* C40: once speak has been left, by a return with any status or by a
\* cancellation, stop_interrupt_listener has been called: the detector
\* holds no worker and no signal, and a capture worker that is still alive
\* finds the stop flag set.
C40_ListenerStoppedOnExit ==
    (pc = "idle" /\ phase > 0) =>
        /\ interrupt_listener_thread = 0
        /\ interrupt_event_ref = 0
        /\ (\E d \in DetectorIds : DetectorAlive(d)) =>
               should_stop_interrupt_listener

\* C40, witness: speak was cancelled while the capture worker it had
\* started was alive; the worker has been asked to stop.
C40_Witness ==
    /\ pc = "idle"
    /\ result # <<>>
    /\ result[1] = "CANCELLED"
    /\ \E d \in DetectorIds : DetectorAlive(d)
    /\ should_stop_interrupt_listener

=============================================================================
